---------------------------- MODULE Spec2Model ----------------------------
(***************************************************************************)
(* Approval gating of the GHL MCP tool gateway.                            *)
(*                                                                         *)
(* The programs that are modelled:                                         *)
(*   ServerSpec - server.js: the in-memory proposalStore Map, the          *)
(*                tools/call, legacy /tools/:toolName and tools/approve    *)
(*                request handlers (with the await of tools/approve), the  *)
(*                sweep timer and the clock.                               *)
(*   StoreSpec  - the ProposalStore class (file-backed store): its         *)
(*                instances on one snapshot file, their operations, the    *)
(*                sweep and the clock.                                     *)
(*   Spec       - either of the two.                                       *)
(*   RegistrySpec - server.js in builds whose ALLOWED_TOOLS and TOOLS      *)
(*                disagree.                                                *)
(*   WriteSpec  - safeWriteJson: one snapshot write, chunk by chunk, with  *)
(*                crashes and restarts.                                    *)
(*   ScanSpec   - containsSensitivePayload on payloads made of keywords,   *)
(*                values and filler.                                       *)
(*   ProjectSpec - toSafeProposal on proposals with one argument.          *)
(*   LiveSpec   - either of the two with Date.now() growing and the sweep  *)
(*                timers firing.                                           *)
(*   TimerSpec  - the setInterval calls that start the two sweeps, for a   *)
(*                range of configured TTLs.                                *)
(*   ErrorSpec  - the error of tools/call for a downstream request that    *)
(*                fails.                                                   *)
(*   SummarySpec - the summary createProposal makes of argument objects.   *)
(*   AuthSpec   - requireApiKey on one request.                            *)
(***************************************************************************)
EXTENDS Integers, Sequences, FiniteSets, TLC

(***************************************************************************)
(* Bounds of the model                                                     *)
(***************************************************************************)
(* requests that can be in flight (awaiting a downstream call) at once *)
MaxReq == 2

(* proposals created in a run *)
MaxProposals == 2

(* the clock runs from 0 to MaxTime *)
MaxTime == 2

(* the TTLs configured, in seconds: 1..MaxSeconds *)
MaxSeconds == 60

(* execFn invocations per proposal id *)
MaxExec == 2

(* ProposalStore instances constructed on the file, one after the other *)
MaxInst == 2

(* PROPOSAL_TTL_MS, in clock ticks *)
PROPOSAL_TTL_MS == 1

(* ProposalStore: this.ttlMs = Number(ttlSeconds) * 1000, in clock ticks *)
ttlMs == 1

(***************************************************************************)
(* Tool registry (server.js)                                               *)
(***************************************************************************)
ALLOWED_TOOLS ==
  { "contacts_search", "contacts_upsert", "contacts_update_status",
    "calendars_list", "calendar_free_slots", "calendar_list_appointments",
    "calendar_create_appointment", "calendar_reschedule_appointment",
    "calendar_cancel_appointment", "conversations_list_threads",
    "conversations_get_thread", "conversations_send_message",
    "conversations_send_new_email", "conversations_report",
    "locations_tags_list", "locations_tags_create", "locations_tags_delete",
    "tasks_list", "tasks_create", "tasks_complete" }

WRITE_TOOLS ==
  { "contacts_upsert", "contacts_update_status",
    "calendar_create_appointment", "calendar_reschedule_appointment",
    "calendar_cancel_appointment", "locations_tags_create",
    "locations_tags_delete", "tasks_create", "tasks_complete",
    "conversations_send_message", "conversations_send_new_email" }

(* TOOLS[name].inputSchema.required, for every key of the TOOLS catalog *)
TOOLS ==
  [ contacts_search |-> <<"query">>,
    contacts_upsert |-> <<"firstName", "lastName">>,
    contacts_update_status |-> <<"contactId">>,
    calendars_list |-> << >>,
    calendar_free_slots |-> <<"calendarId", "startDateTime", "endDateTime">>,
    calendar_list_appointments |-> <<"calendarId", "startDateTime", "endDateTime">>,
    calendar_create_appointment |->
      <<"calendarId", "contactId", "title", "startDateTime", "endDateTime">>,
    calendar_reschedule_appointment |->
      <<"appointmentId", "newStartDateTime", "newEndDateTime">>,
    calendar_cancel_appointment |-> <<"appointmentId">>,
    locations_tags_list |-> << >>,
    locations_tags_create |-> <<"name">>,
    locations_tags_delete |-> <<"tagId">>,
    conversations_report |-> << >>,
    tasks_list |-> << >>,
    tasks_create |-> <<"title", "dueDateTime">>,
    tasks_complete |-> <<"taskId">>,
    conversations_list_threads |-> << >>,
    conversations_get_thread |-> <<"threadId">>,
    conversations_send_message |-> <<"threadId", "message">>,
    conversations_send_new_email |-> <<"message">> ]

(***************************************************************************)
(* Request inputs                                                          *)
(***************************************************************************)
(* JavaScript null as an argument value; an undefined argument is a key    *)
(* that is not in the domain of the argument object.                       *)
Null == "<null>"

(* the tool name of a request; NoName is a tools/call without params.name *)
NoName == ""

ToolNames == { "tasks_create", "tasks_complete", "contacts_search", "no_such_tool", NoName }

(* argument objects of the requests *)
ArgsValid == [ title |-> "T", dueDateTime |-> "2026-02-18T17:00:00-05:00" ]

ArgsTask == [ taskId |-> "K1", title |-> "", dueDateTime |-> Null ]

ArgsSensitive == [ title |-> "T", dueDateTime |-> "2026-02-18T17:00:00-05:00",
                   note |-> "SSN 123-45-6789" ]

ArgSamples == { ArgsValid, ArgsTask, ArgsSensitive }

(* values of params.approve: the booleans, and a string that is not === true *)
ApproveValues == { "true", "false", "'true'" }

(* proposal ids (crypto.randomUUID()); NoId is a request without proposal_id *)
NoId == 0

ProposalIds == 1..MaxProposals

Reqs == 1..MaxReq

(* the argument object of a tools/call request without params.arguments *)
NoArgs == [ k \in {} |-> "" ]

(***************************************************************************)
(* PHI/PII firewall (server.js)                                            *)
(***************************************************************************)
(* A JavaScript string is written here as a TLA+ string; the regular       *)
(* expressions of the firewall read its characters.  characters gives the  *)
(* characters of the strings the samples are made of.                      *)
Digits == { "0", "1", "2", "3", "4", "5", "6", "7", "8", "9" }

LowerCase ==
  << "a", "b", "c", "d", "e", "f", "g", "h", "i", "j", "k", "l", "m",
     "n", "o", "p", "q", "r", "s", "t", "u", "v", "w", "x", "y", "z" >>

UpperCase ==
  << "A", "B", "C", "D", "E", "F", "G", "H", "I", "J", "K", "L", "M",
     "N", "O", "P", "Q", "R", "S", "T", "U", "V", "W", "X", "Y", "Z" >>

(* \w *)
WordChars ==
  Digits \cup { LowerCase[i] : i \in 1..26 } \cup { UpperCase[i] : i \in 1..26 } \cup { "_" }

lowerCaseOf ==
  [ c \in { UpperCase[i] : i \in 1..26 } |->
      LowerCase[CHOOSE i \in 1..26 : UpperCase[i] = c] ]

(* the 'i' flag: characters are compared in one case *)
toLowerCase(c) == IF c \in DOMAIN lowerCaseOf THEN lowerCaseOf[c] ELSE c

(* the window of hasKeywordProximity, as both call sites pass it *)
Window == 24

(* filler of a given length that no pattern matches and that is not \w *)
dots(n) == [ i \in 1..n |-> "." ]

characters ==
  [ s \in {""} |-> << >> ] @@
  ("T" :> << "T" >>) @@
  ("K1" :> << "K", "1" >>) @@
  ("2026-02-18T17:00:00-05:00" :>
     << "2", "0", "2", "6", "-", "0", "2", "-", "1", "8", "T", "1", "7", ":",
        "0", "0", ":", "0", "0", "-", "0", "5", ":", "0", "0" >>) @@
  ("SSN 123-45-6789" :>
     << "S", "S", "N", " ", "1", "2", "3", "-", "4", "5", "-", "6", "7", "8", "9" >>) @@
  ("ssn" :> << "s", "s", "n" >>) @@
  ("social security" :>
     << "s", "o", "c", "i", "a", "l", " ", "s", "e", "c", "u", "r", "i", "t", "y" >>) @@
  ("social security number" :>
     << "s", "o", "c", "i", "a", "l", " ", "s", "e", "c", "u", "r", "i", "t", "y",
        " ", "n", "u", "m", "b", "e", "r" >>) @@
  ("dob" :> << "d", "o", "b" >>) @@
  ("date of birth" :>
     << "d", "a", "t", "e", " ", "o", "f", " ", "b", "i", "r", "t", "h" >>) @@
  ("birth date" :> << "b", "i", "r", "t", "h", " ", "d", "a", "t", "e" >>) @@
  ("born" :> << "b", "o", "r", "n" >>) @@
  ("bearer" :> << "b", "e", "a", "r", "e", "r" >>) @@
  ("Bearer a1b2c3d4" :>
     << "B", "e", "a", "r", "e", "r", " ", "a", "1", "b", "2", "c", "3", "d", "4" >>) @@
  ("policy" :> << "p", "o", "l", "i", "c", "y" >>) @@
  ("driver" :> << "d", "r", "i", "v", "e", "r" >>) @@
  ("license" :> << "l", "i", "c", "e", "n", "s", "e" >>) @@
  ("passport" :> << "p", "a", "s", "s", "p", "o", "r", "t" >>) @@
  ("medical" :> << "m", "e", "d", "i", "c", "a", "l" >>) @@
  ("diagnosis" :> << "d", "i", "a", "g", "n", "o", "s", "i", "s" >>) @@
  ("diagnoses" :> << "d", "i", "a", "g", "n", "o", "s", "e", "s" >>) @@
  ("treatment" :> << "t", "r", "e", "a", "t", "m", "e", "n", "t" >>) @@
  ("health" :> << "h", "e", "a", "l", "t", "h" >>) @@
  ("record" :> << "r", "e", "c", "o", "r", "d" >>) @@
  ("taskId" :> << "t", "a", "s", "k", "I", "d" >>) @@
  ("title" :> << "t", "i", "t", "l", "e" >>) @@
  ("dueDateTime" :> << "d", "u", "e", "D", "a", "t", "e", "T", "i", "m", "e" >>) @@
  ("note" :> << "n", "o", "t", "e" >>) @@
  ("apiKey" :> << "a", "p", "i", "K", "e", "y" >>) @@
  ("token" :> << "t", "o", "k", "e", "n" >>) @@
  ("secret" :> << "s", "e", "c", "r", "e", "t" >>) @@
  ("password" :> << "p", "a", "s", "s", "w", "o", "r", "d" >>) @@
  ("authorization" :>
     << "a", "u", "t", "h", "o", "r", "i", "z", "a", "t", "i", "o", "n" >>) @@
  ("cookie" :> << "c", "o", "o", "k", "i", "e" >>) @@
  ("api" :> << "a", "p", "i" >>) @@
  ("key" :> << "k", "e", "y" >>) @@
  ("pit" :> << "p", "i", "t" >>) @@
  ("client" :> << "c", "l", "i", "e", "n", "t" >>) @@
  ("id" :> << "i", "d" >>) @@
  ("[REDACTED]" :> << "[", "R", "E", "D", "A", "C", "T", "E", "D", "]" >>) @@
  ("null" :> << "n", "u", "l", "l" >>) @@
  ("123-45-6789" :> << "1", "2", "3", "-", "4", "5", "-", "6", "7", "8", "9" >>) @@
  ("123456789" :> << "1", "2", "3", "4", "5", "6", "7", "8", "9" >>) @@
  ("01/02/1990" :> << "0", "1", "/", "0", "2", "/", "1", "9", "9", "0" >>) @@
  (" " :> << " " >>) @@
  ("........................" :> dots(Window)) @@
  ("........................." :> dots(Window + 1))

(* the strings a note of the scanned payloads is made of: keywords, values, *)
(* a bearer token and filler of 1, 24 and 25 characters                     *)
Words ==
  { "ssn", "dob", "123-45-6789", "123456789", "01/02/1990", "Bearer a1b2c3d4", " ",
    "........................", "........................." }

(* the longest note is MaxWords words *)
MaxWords == 3

WordSeqs == UNION { [1..n -> Words] : n \in 0..MaxWords }

RECURSIVE join(_)
join(words) == IF words = << >> THEN "" ELSE Head(words) \o join(Tail(words))

RECURSIVE flatten(_)
flatten(seqs) == IF seqs = << >> THEN << >> ELSE Head(seqs) \o flatten(Tail(seqs))

Notes == { join(words) : words \in WordSeqs }

(* the characters of a string of the samples *)
charactersOf(s) ==
  IF s \in DOMAIN characters
  THEN characters[s]
  ELSE LET words == CHOOSE words \in WordSeqs : join(words) = s
       IN flatten([ i \in DOMAIN words |-> characters[words[i]] ])

(* A match of a pattern in a text is a span << a, b >>: the characters     *)
(* a+1..b of the text.                                                     *)
isWord(text, i) == i \in 1..Len(text) /\ text[i] \in WordChars

(* \b between the characters p and p+1 *)
boundary(text, p) == isWord(text, p) # isWord(text, p + 1)

(* \d{k} after the character a *)
digits(text, a, k) == \A j \in 1..k : a + j <= Len(text) /\ text[a + j] \in Digits

(* one of the given characters after the character a *)
charAt(text, a, set) == a + 1 <= Len(text) /\ text[a + 1] \in set

(* \s* after the character a: the offsets it can end at (JSON.stringify *)
(* leaves the space as the only whitespace character of these samples)  *)
spaces(text, a) ==
  { b \in a..Len(text) : \A j \in (a + 1)..b : text[j] = " " }

(* a literal under the 'i' flag; the literals of the patterns are written *)
(* in lower case                                                          *)
literal(text, word) ==
  { << a, a + Len(word) >> : a \in
      { a \in 0..(Len(text) - Len(word)) :
          \A j \in 1..Len(word) : toLowerCase(text[a + j]) = word[j] } }

(* CREDIT_CARD_PATTERN = /\b(?:\d[ -]*?){13,19}\b/ *)
CREDIT_CARD_PATTERN(text) ==
  \E a \in 0..Len(text) :
    /\ boundary(text, a)
    /\ charAt(text, a, Digits)
    /\ \E b \in (a + 13)..Len(text) :
         /\ boundary(text, b)
         /\ \A j \in (a + 1)..b : text[j] \in Digits \cup { " ", "-" }
         /\ Cardinality({ j \in (a + 1)..b : text[j] \in Digits }) \in 13..19

(* /\bpolicy\s*#?\s*\d+\b/i *)
policyNumber(text) ==
  \E k \in literal(text, characters["policy"]) :
    /\ boundary(text, k[1])
    /\ \E s \in spaces(text, k[2]) :
         \E h \in { s } \cup { h \in { s + 1 } : charAt(text, s, { "#" }) } :
           \E t \in spaces(text, h) :
             \E e \in (t + 1)..Len(text) :
               /\ digits(text, t, e - t)
               /\ boundary(text, e)

(* /\bdriver'?s\s*license\b/i *)
driversLicense(text) ==
  \E k \in literal(text, characters["driver"]) :
    /\ boundary(text, k[1])
    /\ \E q \in { k[2] } \cup { q \in { k[2] + 1 } : charAt(text, k[2], { "'" }) } :
         /\ charAt(text, q, { "s", "S" })
         /\ \E t \in spaces(text, q + 1) :
              \E l \in literal(text, characters["license"]) :
                l[1] = t /\ boundary(text, l[2])

(* a literal between two \b *)
wholeWord(text, word) ==
  \E k \in literal(text, characters[word]) : boundary(text, k[1]) /\ boundary(text, k[2])

(* /\bpassport\b/i *)
passport(text) == wholeWord(text, "passport")

(* /\bmedical\b|\bdiagnos(?:is|es)\b|\btreatment\b|\bhealth\s*record\b/i *)
medical(text) ==
  \/ wholeWord(text, "medical")
  \/ wholeWord(text, "diagnosis")
  \/ wholeWord(text, "diagnoses")
  \/ wholeWord(text, "treatment")
  \/ \E k \in literal(text, characters["health"]) :
       /\ boundary(text, k[1])
       /\ \E t \in spaces(text, k[2]) :
            \E l \in literal(text, characters["record"]) :
              l[1] = t /\ boundary(text, l[2])

PHI_PATTERNS(text) ==
  \/ CREDIT_CARD_PATTERN(text)
  \/ policyNumber(text)
  \/ driversLicense(text)
  \/ passport(text)
  \/ medical(text)

DOB_KEYWORDS == { "dob", "date of birth", "birth date", "born" }

SSN_KEYWORDS == { "ssn", "social security", "social security number" }

(* The source of a value pattern is the sequence of its alternatives: a    *)
(* regular expression built by writing something before or after the       *)
(* source puts it before the first or after the last alternative only,     *)
(* since | binds last.                                                     *)
(* DOB_DATE_PATTERN = /\b\d{1,2}[\/\-]\d{1,2}[\/\-]\d{2,4}\b/ *)
DOB_DATE_PATTERN == << "\\b\\d{1,2}[\\/\\-]\\d{1,2}[\\/\\-]\\d{2,4}\\b" >>

(* SSN_NUMBER_PATTERN = /\b\d{3}-\d{2}-\d{4}\b|\b\d{9}\b/ *)
SSN_NUMBER_PATTERN == << "\\b\\d{3}-\\d{2}-\\d{4}\\b", "\\b\\d{9}\\b" >>

(* the matches of one alternative of a value pattern *)
matches(text, alternative) ==
  IF alternative = "\\b\\d{3}-\\d{2}-\\d{4}\\b"
  THEN { << a, a + 11 >> : a \in
           { a \in 0..Len(text) :
               /\ boundary(text, a)
               /\ digits(text, a, 3)
               /\ charAt(text, a + 3, { "-" })
               /\ digits(text, a + 4, 2)
               /\ charAt(text, a + 6, { "-" })
               /\ digits(text, a + 7, 4)
               /\ boundary(text, a + 11) } }
  ELSE IF alternative = "\\b\\d{9}\\b"
  THEN { << a, a + 9 >> : a \in
           { a \in 0..Len(text) :
               boundary(text, a) /\ digits(text, a, 9) /\ boundary(text, a + 9) } }
  ELSE { << q[1], q[1] + q[2] + q[3] + q[4] + 2 >> : q \in
           { q \in { a \in 0..Len(text) : boundary(text, a) /\ charAt(text, a, Digits) }
                    \X (1..2) \X (1..2) \X (2..4) :
               LET a == q[1]
                   m == q[2]
                   d == q[3]
                   y == q[4]
               IN /\ digits(text, a, m)
                  /\ charAt(text, a + m, { "/", "-" })
                  /\ digits(text, a + m + 1, d)
                  /\ charAt(text, a + m + 1 + d, { "/", "-" })
                  /\ digits(text, a + m + d + 2, y)
                  /\ boundary(text, a + m + d + y + 2) } }

(* new RegExp(`${kwEsc}[\\s\\S]{0,${window}}${valuePattern.source}`, 'i') *)
forward(text, kw, valuePattern, window) ==
  \/ \E k \in literal(text, characters[kw]), v \in matches(text, valuePattern[1]) :
       v[1] - k[2] \in 0..window
  \/ \E i \in 2..Len(valuePattern) : matches(text, valuePattern[i]) # {}

(* new RegExp(`${valuePattern.source}[\\s\\S]{0,${window}}${kwEsc}`, 'i') *)
backward(text, kw, valuePattern, window) ==
  \/ \E i \in 1..(Len(valuePattern) - 1) : matches(text, valuePattern[i]) # {}
  \/ \E v \in matches(text, valuePattern[Len(valuePattern)]),
        k \in literal(text, characters[kw]) :
       k[1] - v[2] \in 0..window

hasKeywordProximity(text, keywords, valuePattern, window) ==
  /\ text # << >>
  /\ \E kw \in keywords :
       \/ forward(text, kw, valuePattern, window)
       \/ backward(text, kw, valuePattern, window)

containsSensitiveText(text) ==
  /\ text # << >>
  /\ \/ PHI_PATTERNS(text)
     \/ hasKeywordProximity(text, DOB_KEYWORDS, DOB_DATE_PATTERN, Window)
     \/ hasKeywordProximity(text, SSN_KEYWORDS, SSN_NUMBER_PATTERN, Window)

(***************************************************************************)
(* Secret shapes (ProposalStore module)                                    *)
(***************************************************************************)
(* BEARER_RE = /\bBearer\s+[\w\-\.=:_]+\b/i *)
BEARER_RE(text) ==
  \E k \in literal(text, characters["bearer"]) :
    /\ boundary(text, k[1])
    /\ \E s \in spaces(text, k[2]) \ { k[2] } :
         \E e \in (s + 1)..Len(text) :
           /\ \A j \in (s + 1)..e : text[j] \in WordChars \cup { "-", ".", "=", ":" }
           /\ boundary(text, e)

(* LONG_TOKEN_RE = /[A-Za-z0-9_-]{20,}/ *)
LONG_TOKEN_RE(text) ==
  \E a \in 0..(Len(text) - 20) :
    \A j \in 1..20 : text[a + j] \in WordChars \cup { "-" }

(* /[A-Za-z]/ and /\d/ *)
hasLetter(text) == \E i \in DOMAIN text : text[i] \in WordChars \ (Digits \cup { "_" })

hasDigit(text) == \E i \in DOMAIN text : text[i] \in Digits

(* isLikelySecretValue of a string *)
isLikelySecretValue(value) ==
  \/ BEARER_RE(value)
  \/ LONG_TOKEN_RE(value) /\ hasLetter(value) /\ hasDigit(value)

(* one literal directly after another, with one of the given characters *)
(* between them or nothing                                              *)
joined(text, first, optional, second) ==
  \E k \in literal(text, characters[first]), l \in literal(text, characters[second]) :
    \/ l[1] = k[2]
    \/ l[1] = k[2] + 1 /\ charAt(text, k[2], optional)

(* SECRET_KEY_RE = /(token|secret|password|authorization|cookie|api[_-]?key| *)
(* apikey|pit|client[_-]?secret|client[_-]?id)/i                            *)
SECRET_KEY_RE(text) ==
  \/ \E word \in { "token", "secret", "password", "authorization", "cookie", "pit" } :
       literal(text, characters[word]) # {}
  \/ joined(text, "api", { "_", "-" }, "key")
  \/ joined(text, "client", { "_", "-" }, "secret")
  \/ joined(text, "client", { "_", "-" }, "id")

(* the character U+2026 of the masks *)
Ellipsis == "\\u2026"

(* value.slice(0, n) and value.slice(-n) *)
sliceHead(value, n) == SubSeq(value, 1, IF Len(value) < n THEN Len(value) ELSE n)

sliceTail(value, n) == SubSeq(value, IF Len(value) < n THEN 1 ELSE Len(value) - n + 1, Len(value))

(* redactValue(key, value) of a string value, as characters *)
redactValue(key, value) ==
  IF SECRET_KEY_RE(characters[key])
  THEN characters["[REDACTED]"]
  ELSE IF isLikelySecretValue(value)
  THEN sliceHead(value, 4) \o << Ellipsis >> \o sliceTail(value, 4)
  ELSE IF Len(value) > 120
  THEN sliceHead(value, 60) \o << Ellipsis >> \o sliceTail(value, 20)
  ELSE value

(* redactObject(obj) of an object whose values are strings *)
redactObject(obj) ==
  [ key \in DOMAIN obj |-> redactValue(key, charactersOf(obj[key])) ]

(***************************************************************************)
(* PHI/PII firewall (server.js): the scan of a payload                     *)
(***************************************************************************)
(* the keys of the sample objects, in the order the objects are written *)
Keys == << "taskId", "title", "dueDateTime", "note", "apiKey" >>

(* JSON.stringify of a string or null; no character of the samples is escaped *)
stringifyValue(value) ==
  IF value = Null
  THEN characters["null"]
  ELSE << "\"" >> \o charactersOf(value) \o << "\"" >>

RECURSIVE stringifyMembers(_, _)
stringifyMembers(payload, keys) ==
  IF keys = << >>
  THEN << >>
  ELSE << "\"" >> \o characters[Head(keys)] \o << "\"", ":" >>
         \o stringifyValue(payload[Head(keys)])
         \o (IF Tail(keys) = << >> THEN << >> ELSE << "," >>)
         \o stringifyMembers(payload, Tail(keys))

(* JSON.stringify(payload ?? {}) *)
JSONstringify(payload) ==
  << "{" >>
    \o stringifyMembers(payload, SelectSeq(Keys, LAMBDA key : key \in DOMAIN payload))
    \o << "}" >>

(* the verdict of the scan, as the code computes it *)
scanOf(payload) == containsSensitiveText(JSONstringify(payload))

(* the argument objects of the requests, and those of them that the scan *)
(* blocks, computed once                                                 *)
requestSamples == ArgSamples \cup { NoArgs }

blockedSamples ==
  UNION { IF scanOf(sample) THEN { sample } ELSE {} : sample \in requestSamples }

(* try { return containsSensitiveText(JSON.stringify(payload ?? {})) }     *)
(* catch { return false }: no sample makes JSON.stringify throw            *)
containsSensitivePayload(payload) ==
  IF payload \in requestSamples
  THEN payload \in blockedSamples
  ELSE scanOf(payload)

(* variant: taskCreated is true whenever the follow-up call did not throw *)
taskCreatedUnlessThrown(outcome) == outcome # "throws"

(* taskCreated = Boolean(result?.ok), false when the call threw *)
taskCreatedOf(outcome) == outcome = "ok"

buildFirewallResponse(taskCreated) ==
  [ kind |-> "blocked_sensitive", reason |-> "phi_pii_detected",
    task_created |-> taskCreated, status |-> 0, proposal_id |-> 0,
    missing |-> << >>, tools |-> {} ]

(***************************************************************************)
(* Approval gating helpers (server.js)                                     *)
(***************************************************************************)
(* variant: only the first missing key is reported *)
validateFirstMissingField(tool, args) ==
  LET missing == SelectSeq(TOOLS[tool],
                           LAMBDA key : \/ key \notin DOMAIN args
                                        \/ args[key] = Null
                                        \/ args[key] = "")
  IN IF missing = << >> THEN << >> ELSE << Head(missing) >>

validateRequiredFields(tool, args) ==
  SelectSeq(TOOLS[tool],
            LAMBDA key : \/ key \notin DOMAIN args
                         \/ args[key] = Null
                         \/ args[key] = "")

(* variant: a proposal is not yet expired at the instant expiresAt *)
isExpiredAfter(proposal, t) == proposal.expiresAt < t

(* proposal.expiresAt <= Date.now() *)
isExpired(proposal, t) == proposal.expiresAt <= t

(* variant: only approve === false is the rejection *)
isApprovedUnlessFalse(approve) == approve # "false"

(* approve !== true is the rejection; anything else is not an approval *)
isApproved(approve) == approve = "true"

(* Map.prototype.delete *)
mapDelete(map, id) == [ i \in DOMAIN map \ {id} |-> map[i] ]

(* a response of the boundary: kind names the branch that answered *)
Response(kind, status) ==
  [ kind |-> kind, reason |-> "", task_created |-> FALSE, status |-> status,
    proposal_id |-> NoId, missing |-> << >>, tools |-> {} ]

NoResponse == Response("none", 0)

NoProposal == [ proposalId |-> NoId, toolName |-> NoName, args |-> NoArgs, expiresAt |-> 0 ]

(* no tool.handler(args) call made *)
NoCall == [ tool |-> NoName, args |-> NoArgs ]

(* a request: its method and params, where it stands, the proposal it read  *)
(* from the store, the handler call it made, what the handler that          *)
(* handleTool called did and what its follow-up task call did ("" when it   *)
(* made none), the audit records it wrote and its response                  *)
IdleRequest ==
  [ pc |-> "idle", method |-> "", name |-> NoName, args |-> NoArgs,
    proposal_id |-> NoId, approve |-> "", proposal |-> NoProposal,
    call |-> NoCall, handled |-> "", followup |-> "", audit |-> << >>,
    resp |-> NoResponse ]

(***************************************************************************)
(* State                                                                   *)
(***************************************************************************)
VARIABLES
  program,              \* which of the programs is running
  now,                  \* Date.now()
  DRY_RUN,              \* process.env.DRY_RUN === '1'
  ENABLE_LEGACY_TOOLS,  \* process.env.ENABLE_LEGACY_TOOLS === '1'
  allowlist,            \* the names in ALLOWED_TOOLS of the build that runs
  catalog,              \* the keys of TOOLS of the build that runs
  proposalStore,        \* server.js: Map proposalId -> proposal
  req,                  \* the tools/approve requests awaiting their handler
  answered,             \* the request that has just been answered, if any
  execCount,            \* per proposal id, the handler invocations of tools/approve
  created,              \* every proposal createProposal has made
  rejected,             \* the proposal ids tools/approve answered 'rejected' for
  executed,             \* the proposal ids tools/approve answered for after the handler
  inst,                 \* ProposalStore: the instances constructed so far
  store,                \* ProposalStore: this.store of the live instance, in Map order
  file,                 \* ProposalStore: payload.proposals of the file at filePath
  issued,               \* ProposalStore: the proposal ids crypto.randomUUID() has made
  execCalls,            \* ProposalStore: per proposal id, the execFn invocations
  ret,                  \* ProposalStore: the call that has just returned, if any
  known,                \* ProposalStore: expiresAt of every proposal created, as last held
  disk,                 \* safeWriteJson: the content of each file that exists, by path
  writer,               \* safeWriteJson: where the process stands in a snapshot write
  scanned,              \* containsSensitivePayload: the payload scanned last
  verdict,              \* containsSensitivePayload: what it returned for it
  projected,            \* toSafeProposal: the proposal it was called with, and its result
  sweepTimer,           \* setInterval: whose sweep it runs, the TTL and the delay in ms
  mapped,               \* tools/call: the failed downstream call mapped last, and its error
  summarized,           \* createProposal: the arguments summarized last, and the summary
  admitted              \* requireApiKey: the request it was called with, and what it did

serverVars == << DRY_RUN, ENABLE_LEGACY_TOOLS, allowlist, catalog, proposalStore, req, answered,
                 execCount, created, rejected, executed >>

storeVars == << inst, store, file, issued, execCalls, ret, known >>

writeVars == << disk, writer >>

scanVars == << scanned, verdict, projected >>

timerVars == << sweepTimer >>

callVars == << mapped, summarized, admitted >>

vars == << program, now, serverVars, storeVars, writeVars, scanVars, timerVars, callVars, timerVars, callVars >>

(***************************************************************************)
(* server.js: request handlers                                             *)
(*                                                                         *)
(* A handler runs on the event loop until it awaits or answers.  Only the  *)
(* await of tools/approve has a continuation that touches proposalStore,   *)
(* so only that await is a separate step; the awaits of a read tool's      *)
(* handler and of the follow-up task are taken together with their         *)
(* continuations, which read and write nothing shared.  A response is      *)
(* handed to the transport (Deliver) before the next event is handled.     *)
(***************************************************************************)
(* the event loop takes the next event *)
EventLoopFree ==
  /\ answered.pc = "idle"
  /\ ret.op = "none"

(* a request arrives; r is the first free slot *)
Arrives(r) ==
  /\ program = "server.js"
  /\ EventLoopFree
  /\ req[r].pc = "idle"
  /\ \A q \in Reqs : q < r => req[q].pc # "idle"

(* res.json(...): the request is answered *)
Answer(rq, resp) == answered' = [rq EXCEPT !.pc = "done", !.resp = resp]

(* crypto.randomUUID(): an id no proposal has had *)
randomUUID == Cardinality(DOMAIN created) + 1

(* createProposal(toolName, args): the proposal it stores *)
createProposal(toolName, args) ==
  [ proposalId |-> randomUUID, toolName |-> toolName, args |-> args,
    expiresAt |-> now + PROPOSAL_TTL_MS ]

(* Map.prototype.set *)
mapSet(map, id, value) ==
  [ i \in DOMAIN map \cup {id} |-> IF i = id THEN value ELSE map[i] ]

(* variant: handleTool looks the name up in TOOLS without the allowlist test *)
handleToolBranchByCatalog(toolName, args) ==
  IF toolName \notin catalog THEN "unknown_tool"
  ELSE IF DRY_RUN /\ toolName \in WRITE_TOOLS
  THEN IF Len(validateRequiredFields(toolName, args)) > 0
       THEN "missing_required_fields" ELSE "dry_run"
  ELSE IF toolName \in WRITE_TOOLS
  THEN IF Len(validateRequiredFields(toolName, args)) > 0
       THEN "missing_required_fields" ELSE "proposed"
  ELSE "handler"

(* variant: handleTool proposes a write tool without validating its fields *)
handleToolBranchUnvalidated(toolName, args) ==
  IF toolName \notin allowlist THEN "tool_not_available"
  ELSE IF toolName \notin catalog THEN "unknown_tool"
  ELSE IF DRY_RUN /\ toolName \in WRITE_TOOLS
  THEN IF Len(validateRequiredFields(toolName, args)) > 0
       THEN "missing_required_fields" ELSE "dry_run"
  ELSE IF toolName \in WRITE_TOOLS THEN "proposed"
  ELSE "handler"

(* variant: handleTool proposes a write tool whatever DRY_RUN is *)
handleToolBranchNoDryRun(toolName, args) ==
  IF toolName \notin allowlist THEN "tool_not_available"
  ELSE IF toolName \notin catalog THEN "unknown_tool"
  ELSE IF toolName \in WRITE_TOOLS
  THEN IF Len(validateRequiredFields(toolName, args)) > 0
       THEN "missing_required_fields" ELSE "proposed"
  ELSE "handler"

(* the branch of handleTool(toolName, args) that is taken *)
handleToolBranch(toolName, args) ==
  IF toolName \notin allowlist THEN "tool_not_available"
  ELSE IF toolName \notin catalog THEN "unknown_tool"
  ELSE IF DRY_RUN /\ toolName \in WRITE_TOOLS
  THEN IF Len(validateRequiredFields(toolName, args)) > 0
       THEN "missing_required_fields" ELSE "dry_run"
  ELSE IF toolName \in WRITE_TOOLS
  THEN IF Len(validateRequiredFields(toolName, args)) > 0
       THEN "missing_required_fields" ELSE "proposed"
  ELSE "handler"

HandlerOutcomes == { "result", "error_with_status", "error", "throws" }

(* variant: an exception of the handler escapes handleTool unanswered *)
handleToolResultUncaught(outcome) ==
  CASE outcome = "result" -> Response("result", 0)
    [] outcome = "error_with_status" -> Response("execution_error", 422)
    [] outcome = "error" -> Response("execution_error", 500)
    [] outcome = "throws" -> NoResponse

(* variant: an error of the handler is returned with status 500 always *)
handleToolResultStatus500(outcome) ==
  CASE outcome = "result" -> Response("result", 0)
    [] outcome = "error_with_status" -> Response("execution_error", 500)
    [] outcome = "error" -> Response("execution_error", 500)
    [] outcome = "throws" -> Response("internal_server_error", 500)

(* what handleTool returns once the handler of a read tool has settled *)
handleToolResult(outcome) ==
  CASE outcome = "result" -> Response("result", 0)
    [] outcome = "error_with_status" -> Response("execution_error", 422)
    [] outcome = "error" -> Response("execution_error", 500)
    [] outcome = "throws" -> Response("internal_server_error", 500)

(* handleTool(toolName, args), answered by its caller *)
handleTool(rq, toolName, args, outcome) ==
  LET branch == handleToolBranch(toolName, args) IN
  CASE branch \in { "tool_not_available", "unknown_tool" } ->
         /\ Answer(rq, Response(branch, 404))
         /\ UNCHANGED << proposalStore, created >>
    [] branch = "missing_required_fields" ->
         /\ Answer(rq, [Response(branch, 400)
                          EXCEPT !.missing = validateRequiredFields(toolName, args)])
         /\ UNCHANGED << proposalStore, created >>
    [] branch = "dry_run" ->
         /\ Answer(rq, Response(branch, 0))
         /\ UNCHANGED << proposalStore, created >>
    [] branch = "proposed" ->
         LET proposal == createProposal(toolName, args) IN
         /\ proposal.proposalId \in ProposalIds
         /\ proposalStore' = mapSet(proposalStore, proposal.proposalId, proposal)
         /\ created' = mapSet(created, proposal.proposalId, proposal)
         /\ Answer(rq, [Response(branch, 0) EXCEPT !.proposal_id = proposal.proposalId])
    [] branch = "handler" ->
         /\ Answer([rq EXCEPT !.call = [tool |-> toolName, args |-> args],
                               !.handled = outcome],
                   handleToolResult(outcome))
         /\ UNCHANGED << proposalStore, created >>

(* handleSensitiveFirewall(toolName): triggerFirewallTask, buildFirewallResponse *)
handleSensitiveFirewall(rq, followup) ==
  /\ IF DRY_RUN
     THEN Answer(rq, buildFirewallResponse(FALSE))
     ELSE Answer([rq EXCEPT !.followup = followup],
                 buildFirewallResponse(taskCreatedOf(followup)))
  /\ UNCHANGED << proposalStore, created >>

FollowupOutcomes == { "ok", "not_ok", "throws" }

(* what the downstream calls of one request do *)
Downstream == [ followup : FollowupOutcomes, handler : HandlerOutcomes ]

(* the downstream call a tools/call or legacy request makes, if any *)
downstreamCall(name, args) ==
  IF name = NoName THEN "none"
  ELSE IF containsSensitivePayload(args)
  THEN IF DRY_RUN THEN "none" ELSE "followup"
  ELSE IF handleToolBranch(name, args) = "handler" THEN "handler" ELSE "none"

(* no outcome is chosen for a downstream call that is not made *)
Used(call, d) ==
  /\ call # "followup" => d.followup = "ok"
  /\ call # "handler" => d.handler = "result"

(* mcpPostHandler, method tools/call *)
ToolsCall(name, args, d) ==
  /\ program = "server.js"
  /\ EventLoopFree
  /\ Used(downstreamCall(name, args), d)
  /\ LET rq == [IdleRequest EXCEPT !.method = "tools/call", !.name = name,
                                   !.args = args] IN
     IF name = NoName
     THEN /\ Answer(rq, Response("tool_name_required", 0))
          /\ UNCHANGED << proposalStore, created >>
     ELSE IF containsSensitivePayload(args)
     THEN handleSensitiveFirewall(rq, d.followup)
     ELSE handleTool(rq, name, args, d.handler)
  /\ UNCHANGED << storeVars, writeVars, scanVars, timerVars, callVars, timerVars, callVars >>
  /\ UNCHANGED << program, now, DRY_RUN, ENABLE_LEGACY_TOOLS, allowlist, catalog, req, execCount,
                  rejected, executed >>

(* Object.values(TOOLS).filter(tool => ALLOWED_TOOLS.has(tool.name)): every *)
(* entry of TOOLS has its key as its name                                   *)
listedTools == { name \in catalog : name \in allowlist }

(* mcpPostHandler, method tools/list *)
ToolsList ==
  /\ program = "server.js"
  /\ EventLoopFree
  /\ Answer([IdleRequest EXCEPT !.method = "tools/list"],
            [Response("tools", 0) EXCEPT !.tools = listedTools])
  /\ UNCHANGED << storeVars, writeVars, scanVars, timerVars, callVars, timerVars, callVars >>
  /\ UNCHANGED << program, now, DRY_RUN, ENABLE_LEGACY_TOOLS, allowlist, catalog,
                  proposalStore, req, execCount, created, rejected, executed >>

(* the methods of the documentation that mcpPostHandler has no branch for *)
OtherMethods == { "tools/proposals/get", "tools/proposals/list" }

(* mcpPostHandler, a method no branch matches: the JSON-RPC error -32601 *)
MethodNotFound(method, proposal_id) ==
  /\ program = "server.js"
  /\ EventLoopFree
  /\ Answer([IdleRequest EXCEPT !.method = method, !.proposal_id = proposal_id],
            Response("method_not_found", 0))
  /\ UNCHANGED << storeVars, writeVars, scanVars, timerVars, callVars, timerVars, callVars >>
  /\ UNCHANGED << program, now, DRY_RUN, ENABLE_LEGACY_TOOLS, allowlist, catalog,
                  proposalStore, req, execCount, created, rejected, executed >>

(* app.post('/tools/:toolName') *)
LegacyTool(toolName, args, d) ==
  /\ program = "server.js"
  /\ EventLoopFree
  /\ Used(IF ENABLE_LEGACY_TOOLS THEN downstreamCall(toolName, args) ELSE "none", d)
  /\ LET rq == [IdleRequest EXCEPT !.method = "legacy", !.name = toolName,
                                   !.args = args] IN
     IF ~ENABLE_LEGACY_TOOLS
     THEN /\ Answer(rq, Response("not_found", 404))
          /\ UNCHANGED << proposalStore, created >>
     ELSE IF containsSensitivePayload(args)
     THEN handleSensitiveFirewall(rq, d.followup)
     ELSE handleTool(rq, toolName, args, d.handler)
  /\ UNCHANGED << storeVars, writeVars, scanVars, timerVars, callVars, timerVars, callVars >>
  /\ UNCHANGED << program, now, DRY_RUN, ENABLE_LEGACY_TOOLS, allowlist, catalog, req, execCount,
                  rejected, executed >>

(* proposalStore.delete(proposal_id) of an expired proposal *)
deleteExpired(map, id) == mapDelete(map, id)

(* proposalStore.delete(proposal_id) of a rejected proposal *)
deleteRejected(map, id) == mapDelete(map, id)

(* variant: the proposal stays in the Map after the handler has settled *)
keepExecuted(map, id) == map

(* proposalStore.delete(proposal_id) after the handler has settled *)
deleteExecuted(map, id) == mapDelete(map, id)

(* mcpPostHandler, method tools/approve, up to await tool.handler *)
ToolsApprove(r, proposal_id, approve) ==
  /\ Arrives(r)
  /\ LET rq == [IdleRequest EXCEPT !.method = "tools/approve",
                                   !.proposal_id = proposal_id,
                                   !.approve = approve] IN
     IF proposal_id = NoId
     THEN /\ Answer(rq, Response("proposal_id_required", 0))
          /\ UNCHANGED << proposalStore, req, execCount, rejected >>
     ELSE IF proposal_id \notin DOMAIN proposalStore
     THEN /\ Answer(rq, Response("proposal_not_found", 0))
          /\ UNCHANGED << proposalStore, req, execCount, rejected >>
     ELSE LET proposal == proposalStore[proposal_id] IN
          IF isExpired(proposal, now)
          THEN /\ proposalStore' = deleteExpired(proposalStore, proposal_id)
               /\ Answer(rq, Response("proposal_expired", 0))
               /\ UNCHANGED << req, execCount, rejected >>
          ELSE IF ~isApproved(approve)
          THEN /\ proposalStore' = deleteRejected(proposalStore, proposal_id)
               /\ Answer(rq, [Response("rejected", 0) EXCEPT !.proposal_id = proposal_id])
               /\ rejected' = rejected \cup {proposal_id}
               /\ UNCHANGED << req, execCount >>
          ELSE IF DRY_RUN
          THEN /\ Answer(rq, [Response("dry_run", 0) EXCEPT !.proposal_id = proposal_id])
               /\ UNCHANGED << proposalStore, req, execCount, rejected >>
          ELSE IF proposal.toolName \notin catalog
          THEN /\ proposalStore' = mapDelete(proposalStore, proposal_id)
               /\ Answer(rq, Response("tool_no_longer_available", 0))
               /\ UNCHANGED << req, execCount, rejected >>
          ELSE /\ req' = [req EXCEPT ![r] =
                            [rq EXCEPT !.pc = "awaitHandler",
                                       !.proposal = proposal,
                                       !.call = [tool |-> proposal.toolName,
                                                 args |-> proposal.args]]]
               /\ execCount' = [execCount EXCEPT ![proposal_id] = @ + 1]
               /\ UNCHANGED << proposalStore, answered, rejected >>
  /\ UNCHANGED << storeVars, writeVars, scanVars, timerVars, callVars, timerVars, callVars >>
  /\ UNCHANGED << program, now, DRY_RUN, ENABLE_LEGACY_TOOLS, allowlist, catalog, created, executed >>

(* execResult of tools/approve: a throw becomes an error of status 500 *)
execResultOf(outcome) ==
  CASE outcome = "result" -> Response("result", 0)
    [] outcome = "error_with_status" -> Response("execution_error", 422)
    [] outcome = "error" -> Response("execution_error", 500)
    [] outcome = "throws" -> Response("execution_error", 500)

(* variant: the audit record carries the arguments of the proposal *)
auditWithArgs(proposal, proposal_id, execResult) ==
  [ ts |-> now, tool |-> proposal.toolName, proposal_id |-> proposal_id,
    result_status |-> IF execResult.kind = "execution_error" THEN "error" ELSE "success",
    args |-> proposal.args ]

(* the object of console.log('[AUDIT]', ...): auditStatus is 'error' when *)
(* execResult?.error is set                                              *)
auditRecord(proposal, proposal_id, execResult) ==
  [ ts |-> now, tool |-> proposal.toolName, proposal_id |-> proposal_id,
    result_status |-> IF execResult.kind = "execution_error" THEN "error" ELSE "success" ]

(* mcpPostHandler, method tools/approve, after await tool.handler *)
ApproveHandlerSettles(r, outcome) ==
  /\ program = "server.js"
  /\ EventLoopFree
  /\ req[r].pc = "awaitHandler"
  /\ LET execResult == execResultOf(outcome)
         record == auditRecord(req[r].proposal, req[r].proposal_id, execResult) IN
     /\ proposalStore' = deleteExecuted(proposalStore, req[r].proposal_id)
     /\ Answer([req[r] EXCEPT !.audit = << record >>], execResult)
  /\ req' = [req EXCEPT ![r] = IdleRequest]
  /\ executed' = executed \cup {req[r].proposal_id}
  /\ UNCHANGED << storeVars, writeVars, scanVars, timerVars, callVars, timerVars, callVars >>
  /\ UNCHANGED << program, now, DRY_RUN, ENABLE_LEGACY_TOOLS, allowlist, catalog, execCount, created,
                  rejected >>

(* the response is handed to the transport *)
Deliver ==
  /\ program = "server.js"
  /\ answered.pc = "done"
  /\ answered' = IdleRequest
  /\ UNCHANGED << storeVars, writeVars, scanVars, timerVars, callVars, timerVars, callVars >>
  /\ UNCHANGED << program, now, DRY_RUN, ENABLE_LEGACY_TOOLS, allowlist, catalog, proposalStore, req,
                  execCount, created, rejected, executed >>

(* variant: the setInterval callback deletes nothing *)
cleanupNothing ==
  /\ program = "server.js"
  /\ EventLoopFree
  /\ UNCHANGED vars

(* cleanupProposals, run by setInterval *)
cleanupProposals ==
  /\ program = "server.js"
  /\ EventLoopFree
  /\ proposalStore' =
       [ id \in { i \in DOMAIN proposalStore : ~(proposalStore[i].expiresAt <= now) }
           |-> proposalStore[id] ]
  /\ UNCHANGED << storeVars, writeVars, scanVars, timerVars, callVars, timerVars, callVars >>
  /\ UNCHANGED << program, now, DRY_RUN, ENABLE_LEGACY_TOOLS, allowlist, catalog, req, answered,
                  execCount, created, rejected, executed >>

(***************************************************************************)
(* ProposalStore                                                           *)
(*                                                                         *)
(* One instance is live at a time: Construct is new ProposalStore(...) on  *)
(* the file at filePath, the first time on no file and afterwards on the   *)
(* snapshot the earlier instance left (the process has restarted).  A call *)
(* returns to its caller (Return) before the next call is made.            *)
(***************************************************************************)
Statuses == { "pending", "approved", "rejected", "expired" }

(* the patches of update(proposalId, patch) *)
Patches == { [ status |-> "pending" ], [ expiresAt |-> MaxTime + ttlMs + 1 ] }

(* list({ limit, status }): 0 stands for an omitted limit, "" for no status *)
ListLimits == { 0, 1 }

ListStatuses == { "", "pending" }

(* Map.prototype.has, get, set on a Map of proposals keyed by proposal_id *)
storeHas(m, id) == \E k \in DOMAIN m : m[k].proposal_id = id

storeGet(m, id) == m[CHOOSE k \in DOMAIN m : m[k].proposal_id = id]

storeSet(m, id, proposal) ==
  IF storeHas(m, id)
  THEN [ k \in DOMAIN m |-> IF m[k].proposal_id = id THEN proposal ELSE m[k] ]
  ELSE Append(m, proposal)

(* what a call returns: null, a proposal, a list, or what execFn returned or *)
(* threw; for list, the limit and status it was called with                 *)
Returned(op, id, how, value) ==
  [ op |-> op, id |-> id, how |-> how, value |-> value,
    limit |-> 0, status |-> "" ]

NoReturn == Returned("none", NoId, "", << >>)

(* JavaScript undefined as the value of a property or of a parameter *)
Undefined == "<undefined>"

(* proposal[key]: a property the object lacks reads as undefined *)
field(proposal, key) == IF key \in DOMAIN proposal THEN proposal[key] ELSE Undefined

(* toSafeProposal(proposal) of a proposal; the redacted arguments are given *)
(* as characters                                                           *)
toSafeProposal(proposal) ==
  [ proposal_id |-> proposal.proposal_id,
    tool |-> proposal.tool,
    summary |-> proposal.summary,
    params_hash |-> proposal.params_hash,
    createdAt |-> proposal.createdAt,
    expiresAt |-> proposal.expiresAt,
    status |-> proposal.status,
    arguments |-> redactObject(proposal.arguments),
    result_status |-> IF field(proposal, "result") # Undefined THEN "stored" ELSE Null,
    error_message |-> IF field(proposal, "error") # Undefined THEN "message" ELSE Null ]

(* the proposal createProposal makes at time 0 for the given arguments *)
proposalOf(args) ==
  [ proposal_id |-> 1, tool |-> "tasks_create", arguments |-> args,
    params_hash |-> "hash", summary |-> "summary",
    createdAt |-> 0, expiresAt |-> ttlMs, status |-> "pending" ]

(* toSafeProposal has not been called *)
NoProjection ==
  [ called |-> FALSE, proposal |-> proposalOf(NoArgs),
    safe |-> toSafeProposal(proposalOf(NoArgs)) ]

(* the properties of a proposal that are undefined when the caller of *)
(* createProposal omits the parameter                                  *)
OptionalFields == { "tool", "params_hash", "summary" }

(* JSON.parse(JSON.stringify(proposal)): a property whose value is undefined *)
(* is left out of the document                                              *)
stringify(proposal) ==
  [ key \in { k \in DOMAIN proposal :
                ~(k \in OptionalFields /\ proposal[k] = Undefined) } |-> proposal[key] ]

(* _persist(): safeWriteJson of Array.from(this.store.values()) *)
persist(m) == [ k \in DOMAIN m |-> stringify(m[k]) ]

(* variant: _load() keeps a record at the instant expiresAt *)
loadAtExpiry(t) == SelectSeq(file, LAMBDA proposal : proposal.expiresAt >= t)

(* _load(): the records of the file that are not expired *)
load(t) == SelectSeq(file, LAMBDA proposal : proposal.expiresAt > t)

(* variant: _cleanup() keeps a record at the instant expiresAt *)
cleanupAfter(m, t) == SelectSeq(m, LAMBDA proposal : ~(proposal.expiresAt < t))

(* _cleanup(): the Map without the records that are expired at t *)
cleanup(m, t) == SelectSeq(m, LAMBDA proposal : ~(proposal.expiresAt <= t))

(* variant: _cleanup() never writes the file *)
neverPersist(m, t) == file

(* _persist() when _cleanup() deleted something *)
persistIfChanged(m, t) == IF cleanup(m, t) # m THEN persist(cleanup(m, t)) ELSE file

(* Object.assign(proposal, patch) *)
assign(proposal, patch) ==
  [ k \in DOMAIN proposal \cup DOMAIN patch |->
      IF k \in DOMAIN patch THEN patch[k] ELSE proposal[k] ]

(* variant: the items stay in the order of the Map *)
inMapOrder(items) == items

(* items.sort((a, b) => b.createdAt - a.createdAt): stable, newest first *)
RECURSIVE sortNewestFirst(_)
sortNewestFirst(items) ==
  IF Len(items) <= 1 THEN items
  ELSE LET sorted == sortNewestFirst(SubSeq(items, 1, Len(items) - 1))
           last == items[Len(items)]
           n == Cardinality({ k \in 1..Len(sorted) :
                                sorted[k].createdAt >= last.createdAt }) IN
       SubSeq(sorted, 1, n) \o << last >> \o SubSeq(sorted, n + 1, Len(sorted))

(* expiresAt of every proposal created, as an instance last held it *)
knownOf(old, m) ==
  [ id \in DOMAIN old \cup { m[k].proposal_id : k \in DOMAIN m } |->
      IF storeHas(m, id) THEN storeGet(m, id).expiresAt ELSE old[id] ]

(* a call on the live instance begins *)
Called ==
  /\ program = "proposals.js"
  /\ EventLoopFree
  /\ inst > 0

(* new ProposalStore({ ttlSeconds, filePath }) *)
Construct ==
  /\ program = "proposals.js"
  /\ EventLoopFree
  /\ inst < MaxInst
  /\ inst' = inst + 1
  /\ store' = load(now)
  /\ known' = knownOf(known, load(now))
  /\ UNCHANGED << program, now, serverVars, writeVars, scanVars, timerVars, callVars, file, issued, execCalls, ret >>

(* the setInterval callback: _cleanup() *)
Sweep ==
  /\ Called
  /\ store' = cleanup(store, now)
  /\ file' = persistIfChanged(store, now)
  /\ UNCHANGED << program, now, serverVars, writeVars, scanVars, timerVars, callVars, inst, issued, execCalls, ret, known >>

(* createProposal(tool, args, params_hash, summary) *)
StoreCreate(tool, args, params_hash, summary) ==
  /\ Called
  /\ issued < MaxProposals
  /\ LET proposal == [ proposal_id |-> issued + 1, tool |-> tool, arguments |-> args,
                       params_hash |-> params_hash, summary |-> summary,
                       createdAt |-> now, expiresAt |-> now + ttlMs,
                       status |-> "pending" ]
         m == storeSet(store, proposal.proposal_id, proposal) IN
     /\ store' = m
     /\ file' = persist(m)
     /\ known' = knownOf(known, m)
     /\ ret' = Returned("createProposal", proposal.proposal_id, "proposal",
                        << proposal >>)
  /\ issued' = issued + 1
  /\ UNCHANGED << program, now, serverVars, writeVars, scanVars, timerVars, callVars, inst, execCalls >>

(* get(proposalId) *)
StoreGet(id) ==
  /\ Called
  /\ LET m == cleanup(store, now) IN
     /\ store' = m
     /\ file' = persistIfChanged(store, now)
     /\ ret' = IF storeHas(m, id)
               THEN Returned("get", id, "proposal", << storeGet(m, id) >>)
               ELSE Returned("get", id, "null", << >>)
  /\ UNCHANGED << program, now, serverVars, writeVars, scanVars, timerVars, callVars, inst, issued, execCalls, known >>

(* list({ limit = 20, status }) *)
StoreList(limit, status) ==
  /\ Called
  /\ LET m == cleanup(store, now)
         items == IF status # "" THEN SelectSeq(m, LAMBDA p : p.status = status) ELSE m
         sorted == sortNewestFirst(items)
         n == IF limit = 0 THEN 20 ELSE limit IN
     /\ store' = m
     /\ file' = persistIfChanged(store, now)
     /\ ret' = [Returned("list", NoId, "list",
                         SubSeq(sorted, 1, IF Len(sorted) < n THEN Len(sorted) ELSE n))
                  EXCEPT !.limit = limit, !.status = status]
  /\ UNCHANGED << program, now, serverVars, writeVars, scanVars, timerVars, callVars, inst, issued, execCalls, known >>

(* variant: the status of the proposal is left as it is *)
keepStatus(m, id, status) == m

(* proposal.status = status; this.store.set(proposalId, proposal) *)
setStatus(m, id, status) ==
  storeSet(m, id, [storeGet(m, id) EXCEPT !.status = status])

(* approve(proposalId, approveBool, execFn); dt is the time that passes between *)
(* the Date.now() of _cleanup() and the Date.now() of the expiry test           *)
StoreApprove(id, approveBool, dt, outcome) ==
  /\ Called
  /\ now + dt <= MaxTime
  /\ LET m == cleanup(store, now) IN
     IF ~storeHas(m, id)
     THEN /\ dt = 0 /\ outcome = "returns"
          /\ store' = m
          /\ file' = persistIfChanged(store, now)
          /\ ret' = Returned("approve", id, "null", << >>)
          /\ UNCHANGED << now, execCalls >>
     ELSE IF storeGet(m, id).expiresAt <= now + dt
     THEN LET m2 == setStatus(m, id, "expired") IN
          /\ outcome = "returns"
          /\ store' = m2
          /\ file' = persist(m2)
          /\ ret' = Returned("approve", id, "proposal", << storeGet(m2, id) >>)
          /\ now' = now + dt
          /\ UNCHANGED execCalls
     ELSE IF ~approveBool
     THEN LET m2 == setStatus(m, id, "rejected") IN
          /\ dt = 0 /\ outcome = "returns"
          /\ store' = m2
          /\ file' = persist(m2)
          /\ ret' = Returned("approve", id, "proposal", << storeGet(m2, id) >>)
          /\ UNCHANGED << now, execCalls >>
     ELSE LET m2 == setStatus(m, id, "approved") IN
          /\ dt = 0
          /\ execCalls[id] < MaxExec
          /\ store' = m2
          /\ file' = persist(m2)
          /\ execCalls' = [execCalls EXCEPT ![id] = @ + 1]
          /\ ret' = Returned("approve", id,
                             IF outcome = "returns" THEN "execFn" ELSE "throws",
                             << storeGet(m2, id) >>)
          /\ UNCHANGED now
  /\ UNCHANGED << program, serverVars, writeVars, scanVars, timerVars, callVars, inst, issued, known >>

(* update(proposalId, patch) *)
StoreUpdate(id, patch) ==
  /\ Called
  /\ IF ~storeHas(store, id)
     THEN /\ ret' = Returned("update", id, "null", << >>)
          /\ UNCHANGED << store, file, known >>
     ELSE LET m == storeSet(store, id, assign(storeGet(store, id), patch)) IN
          /\ store' = m
          /\ file' = persist(m)
          /\ known' = knownOf(known, m)
          /\ ret' = Returned("update", id, "proposal", << storeGet(m, id) >>)
  /\ UNCHANGED << program, now, serverVars, writeVars, scanVars, timerVars, callVars, inst, issued, execCalls >>

(* the call has returned to its caller *)
Return ==
  /\ program = "proposals.js"
  /\ ret.op # "none"
  /\ ret' = NoReturn
  /\ UNCHANGED << program, now, serverVars, writeVars, scanVars, timerVars, callVars, inst, store, file, issued, execCalls,
                  known >>

(* no snapshot write has begun; there was no file at filePath *)
NoWrite ==
  [ pc |-> "idle", data |-> << >>,
    previous |-> [ exists |-> FALSE, content |-> << >> ] ]

(* no summary made *)
NoSummary == [ called |-> FALSE ]

(* no request seen by requireApiKey *)
NoAuth == [ called |-> FALSE ]

(* no failed downstream call mapped *)
NoFailure == [ called |-> FALSE ]

(* no setInterval call made *)
NoTimer == [ owner |-> "", ttl |-> 0, delay |-> 0 ]

(* the state before any ProposalStore is constructed: no file at filePath, *)
(* and nothing scanned but the empty payload                              *)
StoreStart ==
  /\ inst = 0
  /\ store = << >>
  /\ file = << >>
  /\ issued = 0
  /\ execCalls = [ id \in ProposalIds |-> 0 ]
  /\ ret = NoReturn
  /\ known = [ x \in {} |-> 0 ]
  /\ disk = [ path \in {} |-> << >> ]
  /\ writer = NoWrite
  /\ scanned = NoArgs
  /\ verdict = FALSE
  /\ projected = NoProjection
  /\ sweepTimer = NoTimer
  /\ mapped = NoFailure
  /\ summarized = NoSummary
  /\ admitted = NoAuth

(* the clock advances *)
Tick ==
  /\ EventLoopFree
  /\ now < MaxTime
  /\ now' = now + 1
  /\ UNCHANGED << program, serverVars, writeVars, scanVars, timerVars, callVars, storeVars >>

(***************************************************************************)
(* safeWriteJson(filePath, data): the snapshot write, a step at a time,    *)
(* and the crash of the process at any of its steps                        *)
(***************************************************************************)
filePath == "proposals.json"

(* variant: the document is written to filePath itself *)
tmpPathInPlace(path) == path

(* const tmpPath = `${filePath}.tmp` *)
tmpPath(path) == path \o ".tmp"

(* JSON.stringify(data, null, 2) as the chunks writeFileSync writes in order: *)
(* the opening of the document, one chunk per proposal, the closing           *)
text(data) ==
  << [ chunk |-> "open" ] >>
  \o [ k \in DOMAIN data |-> [ chunk |-> "proposal", value |-> stringify(data[k]) ] ]
  \o << [ chunk |-> "close" ] >>

(* JSON.parse(raw) does not throw *)
parses(raw) ==
  /\ Len(raw) >= 2
  /\ raw[1].chunk = "open"
  /\ raw[Len(raw)].chunk = "close"
  /\ \A k \in 2..(Len(raw) - 1) : raw[k].chunk = "proposal"

(* a proposal of a snapshot *)
snapshotProposal(id, status) ==
  [ proposal_id |-> id, tool |-> "tasks_create", arguments |-> ArgsValid,
    params_hash |-> "hash", summary |-> "tasks_create (fields: title, dueDateTime)",
    createdAt |-> 0, expiresAt |-> ttlMs, status |-> status ]

(* the stores _persist() writes *)
Snapshots ==
  { << >>,
    << snapshotProposal(1, "pending") >>,
    << snapshotProposal(1, "approved") >>,
    << snapshotProposal(1, "pending"), snapshotProposal(2, "pending") >> }

(* the file at filePath as the write finds it *)
fileBefore ==
  IF filePath \in DOMAIN disk
  THEN [ exists |-> TRUE, content |-> disk[filePath] ]
  ELSE [ exists |-> FALSE, content |-> << >> ]

(* fs.writeFileSync(tmpPath, ...) opens the file: it is created or truncated *)
WriteBegins(data) ==
  /\ program = "safeWriteJson"
  /\ writer.pc = "idle"
  /\ writer' = [ pc |-> "writing", data |-> data, previous |-> fileBefore ]
  /\ disk' = [ path \in DOMAIN disk \cup { tmpPath(filePath) } |->
                 IF path = tmpPath(filePath) THEN << >> ELSE disk[path] ]
  /\ UNCHANGED << program, now, serverVars, storeVars, scanVars, timerVars, callVars, timerVars, callVars >>

(* fs.writeFileSync(tmpPath, ...) writes the next chunk of the document *)
WriteChunk ==
  /\ program = "safeWriteJson"
  /\ writer.pc = "writing"
  /\ Len(disk[tmpPath(filePath)]) < Len(text(writer.data))
  /\ disk' = [disk EXCEPT ![tmpPath(filePath)] =
                Append(@, text(writer.data)[Len(@) + 1])]
  /\ UNCHANGED << program, now, serverVars, storeVars, scanVars, timerVars, callVars, writer >>

(* fs.renameSync(tmpPath, filePath), after writeFileSync has returned *)
Rename ==
  /\ program = "safeWriteJson"
  /\ writer.pc = "writing"
  /\ Len(disk[tmpPath(filePath)]) = Len(text(writer.data))
  /\ disk' = [ path \in (DOMAIN disk \ { tmpPath(filePath) }) \cup { filePath } |->
                 IF path = filePath THEN disk[tmpPath(filePath)] ELSE disk[path] ]
  /\ writer' = [writer EXCEPT !.pc = "idle"]
  /\ UNCHANGED << program, now, serverVars, storeVars, scanVars, timerVars, callVars, timerVars, callVars >>

(* the process crashes *)
Crash ==
  /\ program = "safeWriteJson"
  /\ writer.pc # "crashed"
  /\ writer' = [writer EXCEPT !.pc = "crashed"]
  /\ UNCHANGED << program, now, serverVars, storeVars, scanVars, timerVars, callVars, disk >>

(* the process is started again *)
Restart ==
  /\ program = "safeWriteJson"
  /\ writer.pc = "crashed"
  /\ writer' = [writer EXCEPT !.pc = "idle"]
  /\ UNCHANGED << program, now, serverVars, storeVars, scanVars, timerVars, callVars, disk >>

(***************************************************************************)
(* Specification of the snapshot write                                     *)
(***************************************************************************)
WriteInit ==
  /\ program = "safeWriteJson"
  /\ now = 0
  /\ DRY_RUN = FALSE
  /\ ENABLE_LEGACY_TOOLS = FALSE
  /\ allowlist = ALLOWED_TOOLS
  /\ catalog = DOMAIN TOOLS
  /\ proposalStore = [ i \in {} |-> NoProposal ]
  /\ req = [ r \in Reqs |-> IdleRequest ]
  /\ answered = IdleRequest
  /\ execCount = [ i \in ProposalIds |-> 0 ]
  /\ created = [ i \in {} |-> NoProposal ]
  /\ rejected = {}
  /\ executed = {}
  /\ StoreStart

WriteNext ==
  \/ \E data \in Snapshots : WriteBegins(data)
  \/ WriteChunk
  \/ Rename
  \/ Crash
  \/ Restart

WriteSpec == WriteInit /\ [][WriteNext]_vars

(***************************************************************************)
(* Specification of the content scan                                       *)
(***************************************************************************)
(* the first call of a run, containsSensitivePayload({ note }), returns *)
Scan(note) ==
  /\ scanned = NoArgs
  /\ scanned' = [ note |-> note ]
  /\ verdict' = containsSensitivePayload(scanned')
  /\ UNCHANGED << program, now, serverVars, storeVars, writeVars, timerVars, callVars, projected >>

ScanInit ==
  /\ program = "containsSensitivePayload"
  /\ now = 0
  /\ DRY_RUN = FALSE
  /\ ENABLE_LEGACY_TOOLS = FALSE
  /\ allowlist = ALLOWED_TOOLS
  /\ catalog = DOMAIN TOOLS
  /\ proposalStore = [ i \in {} |-> NoProposal ]
  /\ req = [ r \in Reqs |-> IdleRequest ]
  /\ answered = IdleRequest
  /\ execCount = [ i \in ProposalIds |-> 0 ]
  /\ created = [ i \in {} |-> NoProposal ]
  /\ rejected = {}
  /\ executed = {}
  /\ StoreStart

ScanNext == \E note \in Notes : Scan(note)

ScanSpec == ScanInit /\ [][ScanNext]_vars

(***************************************************************************)
(* Specification of the safe projection                                    *)
(***************************************************************************)
(* the keys of the arguments of the projected proposals *)
ArgumentKeys == { "note", "apiKey" }

(* the first call of a run, toSafeProposal of a proposal with one argument, *)
(* returns                                                                  *)
Projects(key, value) ==
  /\ ~projected.called
  /\ LET made == proposalOf([ k \in { key } |-> value ])
     IN projected' = [ called |-> TRUE, proposal |-> made, safe |-> toSafeProposal(made) ]
  /\ UNCHANGED << program, now, serverVars, storeVars, writeVars, timerVars, callVars, scanned, verdict >>

ProjectInit ==
  /\ program = "toSafeProposal"
  /\ now = 0
  /\ DRY_RUN = FALSE
  /\ ENABLE_LEGACY_TOOLS = FALSE
  /\ allowlist = ALLOWED_TOOLS
  /\ catalog = DOMAIN TOOLS
  /\ proposalStore = [ i \in {} |-> NoProposal ]
  /\ req = [ r \in Reqs |-> IdleRequest ]
  /\ answered = IdleRequest
  /\ execCount = [ i \in ProposalIds |-> 0 ]
  /\ created = [ i \in {} |-> NoProposal ]
  /\ rejected = {}
  /\ executed = {}
  /\ StoreStart

ProjectNext == \E key \in ArgumentKeys, value \in Notes : Projects(key, value)

ProjectSpec == ProjectInit /\ [][ProjectNext]_vars

(***************************************************************************)
(* Specification of server.js                                              *)
(***************************************************************************)
ServerInit ==
  /\ program = "server.js"
  /\ now = 0
  /\ DRY_RUN \in BOOLEAN
  /\ ENABLE_LEGACY_TOOLS \in BOOLEAN
  /\ allowlist = ALLOWED_TOOLS
  /\ catalog = DOMAIN TOOLS
  /\ proposalStore = [ i \in {} |-> NoProposal ]
  /\ req = [ r \in Reqs |-> IdleRequest ]
  /\ answered = IdleRequest
  /\ execCount = [ i \in ProposalIds |-> 0 ]
  /\ created = [ i \in {} |-> NoProposal ]
  /\ rejected = {}
  /\ executed = {}
  /\ StoreStart

ServerNext ==
  \/ ToolsList
  \/ \E name \in ToolNames, args \in ArgSamples, d \in Downstream :
       ToolsCall(name, args, d)
  \/ \E name \in ToolNames \ {NoName}, args \in ArgSamples, d \in Downstream :
       LegacyTool(name, args, d)
  \/ \E r \in Reqs, id \in ProposalIds \cup {NoId}, approve \in ApproveValues :
       ToolsApprove(r, id, approve)
  \/ \E r \in Reqs, outcome \in HandlerOutcomes : ApproveHandlerSettles(r, outcome)
  \/ \E method \in OtherMethods, id \in ProposalIds \cup {NoId} : MethodNotFound(method, id)
  \/ Deliver
  \/ cleanupProposals
  \/ Tick

ServerSpec == ServerInit /\ [][ServerNext]_vars

(***************************************************************************)
(* Specification of server.js built with an allowlist and a catalog that   *)
(* disagree on two tools                                                   *)
(***************************************************************************)
(* the tools the two registries disagree on *)
DisagreedTools == { "tasks_create", "contacts_search" }

(* ALLOWED_TOOLS lacking one of them and the keys of TOOLS lacking the other *)
Registries ==
  { [ allowlist |-> ALLOWED_TOOLS \ {name},
      catalog |-> DOMAIN TOOLS \ (DisagreedTools \ {name}) ] :
      name \in DisagreedTools }

RegistryInit ==
  /\ program = "server.js"
  /\ now = 0
  /\ DRY_RUN \in BOOLEAN
  /\ ENABLE_LEGACY_TOOLS = TRUE
  /\ \E registry \in Registries : /\ allowlist = registry.allowlist
                                  /\ catalog = registry.catalog
  /\ proposalStore = [ i \in {} |-> NoProposal ]
  /\ req = [ r \in Reqs |-> IdleRequest ]
  /\ answered = IdleRequest
  /\ execCount = [ i \in ProposalIds |-> 0 ]
  /\ created = [ i \in {} |-> NoProposal ]
  /\ rejected = {}
  /\ executed = {}
  /\ StoreStart

RegistrySpec == RegistryInit /\ [][ServerNext]_vars

(***************************************************************************)
(* Specification of ProposalStore                                          *)
(***************************************************************************)
StoreInit ==
  /\ program = "proposals.js"
  /\ now = 0
  /\ DRY_RUN = FALSE
  /\ ENABLE_LEGACY_TOOLS = FALSE
  /\ allowlist = ALLOWED_TOOLS
  /\ catalog = DOMAIN TOOLS
  /\ proposalStore = [ i \in {} |-> NoProposal ]
  /\ req = [ r \in Reqs |-> IdleRequest ]
  /\ answered = IdleRequest
  /\ execCount = [ i \in ProposalIds |-> 0 ]
  /\ created = [ i \in {} |-> NoProposal ]
  /\ rejected = {}
  /\ executed = {}
  /\ StoreStart

StoreNext ==
  \/ Construct
  \/ Sweep
  \/ \E params_hash \in { "hash", Undefined } :
       StoreCreate("tasks_create", ArgsValid, params_hash,
                   "tasks_create (fields: title, dueDateTime)")
  \/ \E id \in ProposalIds : StoreGet(id)
  \/ \E limit \in ListLimits, status \in ListStatuses : StoreList(limit, status)
  \/ \E id \in ProposalIds, approveBool \in BOOLEAN, dt \in {0, 1},
        outcome \in { "returns", "throws" } :
       StoreApprove(id, approveBool, dt, outcome)
  \/ \E id \in ProposalIds, patch \in Patches : StoreUpdate(id, patch)
  \/ Return
  \/ Tick

StoreSpec == StoreInit /\ [][StoreNext]_vars

(***************************************************************************)
(* Steps of the request handlers, as the properties below name them        *)
(***************************************************************************)
(* this step answers a request that arrived in it *)
Answers == answered.pc = "idle" /\ answered'.pc = "done"

(* this step is tools/approve for id reaching await tool.handler in slot r *)
InvokesHandler(r, id) ==
  /\ req[r].pc = "idle"
  /\ req'[r].pc = "awaitHandler"
  /\ req'[r].proposal_id = id

(* this step is a tools/approve request for id, up to its answer or its await *)
ApproveHandled(id) ==
  \/ /\ Answers
     /\ answered'.method = "tools/approve"
     /\ answered'.proposal_id = id
     /\ answered'.call = NoCall
  \/ \E r \in Reqs : InvokesHandler(r, id)

(* this step is a tools/call or legacy request that reaches the content scan *)
(* with arguments the scan flags                                             *)
Flagged ==
  /\ Answers
  /\ \/ answered'.method = "tools/call" /\ answered'.name # NoName
     \/ answered'.method = "legacy" /\ ENABLE_LEGACY_TOOLS
  /\ containsSensitivePayload(answered'.args)

(* this step is the call op(id) of ProposalStore returning *)
Returns(op, id) == ret.op = "none" /\ ret'.op = op /\ ret'.id = id

(***************************************************************************)
(* Properties of server.js                                                 *)
(***************************************************************************)
(* C1: with DRY_RUN off, a write tool's handler is invoked only by a       *)
(* tools/approve request whose approve is exactly true, for a proposal     *)
(* that is in the store and unexpired when the request reads it, with the  *)
(* tool name and arguments stored at its creation; tools/call and the      *)
(* legacy route never invoke a write tool's handler.                       *)
WriteHandlerOnlyByApproval ==
  [][ ~DRY_RUN =>
        /\ \A r \in Reqs, id \in ProposalIds \cup {NoId} :
             InvokesHandler(r, id) =>
               /\ req'[r].method = "tools/approve"
               /\ req'[r].approve = "true"
               /\ id \in DOMAIN proposalStore
               /\ id \in DOMAIN created
               /\ proposalStore[id] = created[id]
               /\ now < proposalStore[id].expiresAt
               /\ req'[r].call = [ tool |-> created[id].toolName,
                                   args |-> created[id].args ]
        /\ (Answers /\ answered'.method # "tools/approve") =>
             answered'.call.tool \notin WRITE_TOOLS ]_vars

(* C1: an approved write tool is awaiting its handler *)
WriteHandlerInvoked ==
  /\ ~DRY_RUN
  /\ \E r \in Reqs : /\ req[r].pc = "awaitHandler"
                     /\ req[r].call.tool \in WRITE_TOOLS
                     /\ req[r].approve = "true"

(* C2: while a tools/approve request with approve=true awaits the handler, *)
(* the handler has been invoked exactly once for its proposal: a second    *)
(* approve=true request handled meanwhile is answered not-found.           *)
OverlappingApprovesExecuteOnce ==
  \A r \in Reqs : req[r].pc = "awaitHandler" => execCount[req[r].proposal_id] = 1

(* C3: once a tools/approve request has invoked the handler and responded, *)
(* the proposal is not in the store, and every later tools/approve request *)
(* for the id is answered not-found and invokes no handler.                *)
ExecutedProposalIsGone ==
  [][ /\ \A id \in executed' : id \notin DOMAIN proposalStore'
      /\ \A id \in executed :
           ApproveHandled(id) =>
             /\ Answers
             /\ answered'.resp.kind = "proposal_not_found"
             /\ execCount' = execCount ]_vars

(* C3: a tools/approve request for an executed proposal is answered *)
LaterApproveNotFound ==
  /\ answered.pc = "done"
  /\ answered.method = "tools/approve"
  /\ answered.call = NoCall
  /\ answered.proposal_id \in executed
  /\ answered.resp.kind = "proposal_not_found"

(* C5: the handler is never invoked for a proposal that a tools/approve    *)
(* request has answered 'rejected' for.                                    *)
RejectedNeverExecutes == \A id \in rejected : execCount[id] = 0

(* C10: a tools/call or legacy request whose arguments the content scan    *)
(* flags is answered blocked_sensitive with reason phi_pii_detected; no    *)
(* required field is validated, no proposal is created, no handler is      *)
(* invoked; task_created is true only if the follow-up call reported ok.   *)
FlaggedIsBlocked ==
  [][ Flagged =>
        /\ answered'.resp.kind = "blocked_sensitive"
        /\ answered'.resp.reason = "phi_pii_detected"
        /\ answered'.resp.missing = << >>
        /\ answered'.call = NoCall
        /\ created' = created
        /\ proposalStore' = proposalStore
        /\ execCount' = execCount
        /\ req' = req
        /\ answered'.resp.task_created => answered'.followup = "ok"
        /\ (answered'.followup = "ok") => answered'.resp.task_created ]_vars

(* C10: a flagged request for a write tool whose required field is missing *)
(* is blocked although its follow-up call threw                            *)
BlockedThoughFollowupThrew ==
  /\ answered.pc = "done"
  /\ answered.name = "tasks_complete"
  /\ answered.args = ArgsSensitive
  /\ answered.followup = "throws"
  /\ answered.resp.kind = "blocked_sensitive"
  /\ ~answered.resp.task_created

(* C11: a tools/call request that names a tool outside the allowlist is    *)
(* answered with the not-found error and takes no step of the blocked      *)
(* path, whatever its arguments contain.                                   *)
UnknownToolBeforeScan ==
  (/\ answered.pc = "done"
   /\ answered.method = "tools/call"
   /\ answered.name # NoName
   /\ answered.name \notin ALLOWED_TOOLS) =>
    /\ answered.resp.kind = "tool_not_available"
    /\ answered.resp.status = 404
    /\ answered.followup = ""

(* C12: a handler is run or a proposal created only for a name that is in  *)
(* ALLOWED_TOOLS and in TOOLS; a name outside the allowlist is answered    *)
(* 404 'not available' whether or not TOOLS has it, a name in the          *)
(* allowlist that TOOLS lacks is answered 404 'unknown tool', and          *)
(* tools/list holds exactly the names that are in both.                    *)
ReachableOnlyIfInBoth ==
  /\ \A id \in DOMAIN created : created[id].toolName \in allowlist \cap catalog
  /\ \A r \in Reqs : req[r].pc = "awaitHandler" =>
       req[r].call.tool \in allowlist \cap catalog
  /\ (answered.pc = "done" /\ answered.method \in { "tools/call", "legacy" }) =>
       /\ answered.call # NoCall => answered.name \in allowlist \cap catalog
       /\ answered.resp.kind \in { "proposed", "dry_run" } =>
            answered.name \in allowlist \cap catalog
       /\ (/\ answered.name # NoName
           /\ ~containsSensitivePayload(answered.args)
           /\ answered.name \notin allowlist) =>
            /\ answered.resp.kind = "tool_not_available"
            /\ answered.resp.status = 404
       /\ (/\ ~containsSensitivePayload(answered.args)
           /\ answered.name \in allowlist \ catalog) =>
            /\ answered.resp.kind = "unknown_tool"
            /\ answered.resp.status = 404
  /\ (answered.pc = "done" /\ answered.method = "tools/list") =>
       answered.resp.tools = allowlist \cap catalog

(* C12: a tool that TOOLS holds and ALLOWED_TOOLS lacks is asked for and *)
(* rejected                                                              *)
CatalogOnlyToolRejected ==
  /\ answered.pc = "done"
  /\ answered.method = "tools/call"
  /\ answered.name \in catalog \ allowlist
  /\ answered.resp.kind = "tool_not_available"

(* C13: a write-tool call with scanner-clear arguments, DRY_RUN on or off, *)
(* in which required keys are undefined, null or '' is answered with a     *)
(* status-400 validation error that names every such key in the order of   *)
(* the required list; no proposal is created and no handler invoked; when  *)
(* no required key is missing there is no validation error.                *)
MissingFieldsAllNamed ==
  [][ (/\ Answers
       /\ \/ answered'.method = "tools/call"
          \/ answered'.method = "legacy" /\ ENABLE_LEGACY_TOOLS
       /\ answered'.name \in WRITE_TOOLS \cap allowlist \cap catalog
       /\ ~containsSensitivePayload(answered'.args)) =>
        LET required == TOOLS[answered'.name]
            args == answered'.args
            lacking == { key \in { required[k] : k \in DOMAIN required } :
                           \/ key \notin DOMAIN args
                           \/ args[key] = Null
                           \/ args[key] = "" }
            named == answered'.resp.missing
            indexOf(key) == CHOOSE k \in DOMAIN required : required[k] = key
        IN IF lacking # {}
           THEN /\ answered'.resp.kind = "missing_required_fields"
                /\ answered'.resp.status = 400
                /\ { named[k] : k \in DOMAIN named } = lacking
                /\ Len(named) = Cardinality(lacking)
                /\ \A i, j \in DOMAIN named :
                     i < j => indexOf(named[i]) < indexOf(named[j])
                /\ answered'.call = NoCall
                /\ created' = created
                /\ proposalStore' = proposalStore
                /\ execCount' = execCount
           ELSE /\ answered'.resp.kind \in { "proposed", "dry_run" }
                /\ answered'.resp.missing = << >> ]_vars

(* C13: tasks_create is called with title '' and dueDateTime null *)
TwoMissingFieldsNamed ==
  /\ answered.pc = "done"
  /\ answered.name = "tasks_create"
  /\ answered.args = ArgsTask
  /\ answered.resp.kind = "missing_required_fields"
  /\ answered.resp.missing = << "title", "dueDateTime" >>

(* C14: with DRY_RUN on, a write-tool call that passes the scan and the    *)
(* required-field validation is answered with the dry-run report, creates  *)
(* no proposal and makes no downstream call; no request is answered with a *)
(* dry-run report and has a proposal created.                              *)
DryRunNeverProposes ==
  [][ /\ (/\ Answers
          /\ DRY_RUN
          /\ \/ answered'.method = "tools/call"
             \/ answered'.method = "legacy" /\ ENABLE_LEGACY_TOOLS
          /\ answered'.name \in WRITE_TOOLS \cap allowlist \cap catalog
          /\ ~containsSensitivePayload(answered'.args)
          /\ validateRequiredFields(answered'.name, answered'.args) = << >>) =>
           /\ answered'.resp.kind = "dry_run"
           /\ answered'.resp.proposal_id = NoId
           /\ answered'.call = NoCall
           /\ answered'.followup = ""
           /\ req' = req
           /\ execCount' = execCount
      /\ (Answers /\ answered'.resp.kind = "dry_run") =>
           /\ DRY_RUN
           /\ created' = created
           /\ proposalStore' = proposalStore
      /\ created' # created => ~DRY_RUN /\ answered'.resp.kind = "proposed" ]_vars

(* C14: tasks_create with valid arguments is answered with the dry-run report *)
DryRunReported ==
  /\ DRY_RUN
  /\ answered.pc = "done"
  /\ answered.method = "tools/call"
  /\ answered.name = "tasks_create"
  /\ answered.args = ArgsValid
  /\ answered.resp.kind = "dry_run"
  /\ DOMAIN created = {}

(* C15: for a read tool called with scanner-clear arguments handleTool     *)
(* calls the handler once with the arguments given, validates no required  *)
(* field and creates no proposal; an error result of the handler comes     *)
(* back as an execution error with the handler's status (422 here), or 500 *)
(* when it has none, a throw as a 500 'Internal server error'; the         *)
(* proposal store is unchanged.                                            *)
ReadToolRunsDirectly ==
  [][ (/\ Answers
       /\ \/ answered'.method = "tools/call"
          \/ answered'.method = "legacy" /\ ENABLE_LEGACY_TOOLS
       /\ answered'.name \in (allowlist \cap catalog) \ WRITE_TOOLS
       /\ ~containsSensitivePayload(answered'.args)) =>
        /\ answered'.call = [ tool |-> answered'.name, args |-> answered'.args ]
        /\ answered'.handled \in HandlerOutcomes
        /\ answered'.handled = "result" => answered'.resp.kind = "result"
        /\ answered'.handled = "error_with_status" =>
             answered'.resp.kind = "execution_error" /\ answered'.resp.status = 422
        /\ answered'.handled = "error" =>
             answered'.resp.kind = "execution_error" /\ answered'.resp.status = 500
        /\ answered'.handled = "throws" =>
             /\ answered'.resp.kind = "internal_server_error"
             /\ answered'.resp.status = 500
        /\ answered'.resp.missing = << >>
        /\ answered'.resp.proposal_id = NoId
        /\ created' = created
        /\ proposalStore' = proposalStore
        /\ req' = req ]_vars

(* C15: contacts_search, called without its required key query, is run and *)
(* its handler's error comes back with the handler's status                *)
ReadToolErrorReturned ==
  /\ answered.pc = "done"
  /\ answered.name = "contacts_search"
  /\ validateRequiredFields(answered.name, answered.args) # << >>
  /\ answered.handled = "error_with_status"
  /\ answered.resp.status = 422

(* the occurrences of the keywords of a category in a text *)
keywordsIn(serialized, keywords) ==
  UNION { literal(serialized, characters[kw]) : kw \in keywords }

(* the values of a category's shape in a text, whichever alternative matches *)
valuesIn(serialized, valuePattern) ==
  UNION { matches(serialized, valuePattern[i]) : i \in DOMAIN valuePattern }

(* a keyword and a value at most Window characters apart, in either order *)
near(k, v) == v[1] - k[2] \in 0..Window \/ k[1] - v[2] \in 0..Window

(* a keyword of a category with a value of that category's shape near it *)
keywordNearValue(serialized) ==
  \/ \E k \in keywordsIn(serialized, DOB_KEYWORDS),
        v \in valuesIn(serialized, DOB_DATE_PATTERN) : near(k, v)
  \/ \E k \in keywordsIn(serialized, SSN_KEYWORDS),
        v \in valuesIn(serialized, SSN_NUMBER_PATTERN) : near(k, v)

(* C20: containsSensitivePayload returns true (blocked) when the serialized *)
(* payload has a date-of-birth keyword and a date-shaped value, or a        *)
(* social-security keyword and an SSN-shaped value, at most 24 characters   *)
(* apart in either order; and false (clear) when it has such a keyword, no  *)
(* qualifying value within the window of one, and no fixed pattern matches. *)
KeywordNearValueBlocks ==
  scanned # NoArgs =>
    LET serialized == JSONstringify(scanned)
    IN /\ keywordNearValue(serialized) => verdict
       /\ (/\ keywordsIn(serialized, DOB_KEYWORDS \cup SSN_KEYWORDS) # {}
           /\ ~keywordNearValue(serialized)
           /\ ~PHI_PATTERNS(serialized)) => ~verdict

(* C21: containsSensitivePayload returns true (blocked) for every payload *)
(* whose serialized text contains a bearer token, 'Bearer <token>'.       *)
BearerTokenBlocks ==
  (scanned # NoArgs /\ BEARER_RE(JSONstringify(scanned))) => verdict

(* C22: tools/proposals/get with the id of a proposal that is in the store *)
(* is answered with that proposal, and tools/proposals/list with the list  *)
(* of the proposals; neither is answered with an error.                    *)
ProposalsMethodsServed ==
  [][ (Answers /\ answered'.method \in OtherMethods) =>
        /\ answered'.resp.kind \in { "proposal", "proposals", "proposal_not_found" }
        /\ (/\ answered'.method = "tools/proposals/get"
            /\ answered'.proposal_id \in DOMAIN proposalStore
            /\ ~(proposalStore[answered'.proposal_id].expiresAt <= now)) =>
             /\ answered'.resp.kind = "proposal"
             /\ answered'.resp.proposal_id = answered'.proposal_id ]_vars

(* the outcome family of a response: which res.json of the boundary wrote it *)
outcomeOf(kind) ==
  CASE kind \in { "tools", "result", "proposed", "dry_run" } -> "result"
    [] kind \in { "tool_name_required", "proposal_id_required", "missing_required_fields",
                  "tool_not_available", "unknown_tool", "not_found",
                  "method_not_found" } -> "validation_error"
    [] kind = "blocked_sensitive" -> "policy_block"
    [] kind \in { "proposal_not_found", "proposal_expired", "rejected",
                  "tool_no_longer_available" } -> "lifecycle_error"
    [] kind = "execution_error" -> "execution_error"
    [] kind = "internal_server_error" -> "internal_error"
    [] OTHER -> "none"

(* this step takes a request in and leaves it at await tool.handler *)
Suspends ==
  /\ answered' = answered
  /\ \E r \in Reqs : /\ req[r].pc = "idle"
                     /\ req' = [req EXCEPT ![r] = req'[r]]
                     /\ req'[r].pc = "awaitHandler"

(* this step resumes the request of slot r after await tool.handler *)
Resumes(r) == req[r].pc = "awaitHandler" /\ req'[r] # req[r]

DocumentedTools ==
  { "contacts_search", "contacts_upsert", "contacts_update_status",
    "calendar_list_appointments", "calendar_create_appointment",
    "calendar_reschedule_appointment", "calendar_cancel_appointment",
    "conversations_list_threads", "conversations_get_thread",
    "conversations_send_message", "tasks_list", "tasks_create", "tasks_complete" }

(* C26: tools/list returns exactly the 13 documented tools, and a tools/call *)
(* that reaches a handler or makes a proposal names one of them              *)
OnlyDocumentedTools ==
  /\ (answered.pc = "done" /\ answered.resp.kind = "tools") =>
       answered.resp.tools = DocumentedTools
  /\ (answered.pc = "done" /\ answered.method = "tools/call"
        /\ answered.resp.kind \in { "result", "execution_error", "proposed" }) =>
       answered.name \in DocumentedTools

(* C28: while a tools/approve request awaits the handler it invoked for a  *)
(* proposal, the proposal is in the store: no sweep, rejection or expiry   *)
(* check removes it before that invocation has settled                     *)
InFlightProposalStays ==
  \A r \in Reqs : req[r].pc = "awaitHandler" => req[r].proposal_id \in DOMAIN proposalStore

(* C30: a tools/approve request writes one audit record, in the step that  *)
(* resumes it after the handler has settled and deletes the proposal, and  *)
(* none before; the record has the time, the tool name, the proposal id    *)
(* and result_status and nothing else, and result_status is 'error'        *)
(* exactly when the execution ended in an error; no other request writes   *)
(* one                                                                     *)
OneAuditRecordPerExecution ==
  [][ /\ \A r \in Reqs :
           /\ req'[r].audit = << >>
           /\ Resumes(r) =>
                /\ Len(answered'.audit) = 1
                /\ DOMAIN answered'.audit[1] = { "ts", "tool", "proposal_id", "result_status" }
                /\ answered'.audit[1].ts = now
                /\ answered'.audit[1].tool = req[r].proposal.toolName
                /\ answered'.audit[1].proposal_id = req[r].proposal_id
                /\ answered'.audit[1].result_status \in { "error", "success" }
                /\ answered'.audit[1].result_status = "error" <=>
                     answered'.resp.kind = "execution_error"
                /\ req[r].proposal_id \notin DOMAIN proposalStore'
      /\ (Answers /\ ~\E r \in Reqs : Resumes(r)) => answered'.audit = << >> ]_vars

(* an execution that ended in an error has been audited *)
FailedExecutionAudited ==
  /\ answered.pc = "done"
  /\ answered.method = "tools/approve"
  /\ Len(answered.audit) = 1
  /\ answered.audit[1].result_status = "error"

(* C34: every proposal in the store, and every proposal ever created, names *)
(* a tool of WRITE_TOOLS, ALLOWED_TOOLS and TOOLS and has arguments the     *)
(* scan did not flag and in which no required field is missing; no         *)
(* tools/approve is answered 'Tool no longer available'                    *)
ProposalsAreValidWrites ==
  /\ \A id \in DOMAIN created :
       /\ created[id].toolName \in WRITE_TOOLS \cap ALLOWED_TOOLS \cap DOMAIN TOOLS
       /\ ~containsSensitivePayload(created[id].args)
       /\ validateRequiredFields(created[id].toolName, created[id].args) = << >>
  /\ \A id \in DOMAIN proposalStore : proposalStore[id] = created[id]
  /\ answered.resp.kind # "tool_no_longer_available"

(* a stored proposal has passed the tool lookup of tools/approve *)
StoredProposalPassedLookup ==
  \E r \in Reqs : /\ req[r].pc = "awaitHandler"
                  /\ req[r].proposal_id \in DOMAIN proposalStore
                  /\ req[r].proposal.toolName \in WRITE_TOOLS

(* C35: with DRY_RUN on the store is empty in every state, so no request   *)
(* awaits a handler and every tools/approve with a proposal_id is answered *)
(* 'Proposal not found or expired', never by the dry-run branch            *)
DryRunStoreIsEmpty ==
  DRY_RUN =>
    /\ DOMAIN proposalStore = {}
    /\ DOMAIN created = {}
    /\ \A r \in Reqs : req[r].pc = "idle"
    /\ ( /\ answered.pc = "done"
         /\ answered.method = "tools/approve"
         /\ answered.proposal_id # NoId ) => answered.resp.kind = "proposal_not_found"

(* with DRY_RUN on, a tools/approve for a proposal id has been answered *)
DryRunApproveNotFound ==
  /\ DRY_RUN
  /\ answered.pc = "done"
  /\ answered.method = "tools/approve"
  /\ answered.proposal_id # NoId
  /\ answered.resp.kind = "proposal_not_found"

(***************************************************************************)
(* Properties of ProposalStore                                             *)
(***************************************************************************)
(* C4: execFn is invoked at most once for every proposal id. *)
ExecFnAtMostOnce == \A id \in ProposalIds : execCalls[id] <= 1

(* C6: get(id) never returns a proposal that approve(id, false) has set to *)
(* 'rejected': after the rejection get(id) returns null.                   *)
RejectedIsNotFound ==
  (ret.op = "get" /\ ret.how = "proposal") => ret.value[1].status # "rejected"

(* C8: get(id) returns a created proposal exactly while now < expiresAt,   *)
(* on the instance that created it and on one constructed later on the     *)
(* same file, swept or not; a proposal just created has status 'pending'.  *)
GetUntilExpiry ==
  /\ ret.op = "get" =>
       /\ ret.how \in { "proposal", "null" }
       /\ ret.how = "proposal" <=> (ret.id \in DOMAIN known /\ now < known[ret.id])
       /\ ret.how = "proposal" =>
            /\ ret.value[1].proposal_id = ret.id
            /\ ret.value[1].expiresAt = known[ret.id]
  /\ ret.op = "createProposal" =>
       /\ ret.value[1].status = "pending"
       /\ storeGet(store, ret.id) = ret.value[1]
       /\ now < ret.value[1].expiresAt

(* C8: the second instance returns an unswept proposal of the first *)
SecondInstanceGets ==
  /\ inst = 2
  /\ ret.op = "get"
  /\ ret.how = "proposal"
  /\ ret.value[1].createdAt < now

(* C9: a status that is approved, rejected or expired never changes. *)
TerminalStatusIsFinal ==
  [][ \A id \in ProposalIds :
        (storeHas(store, id) /\ storeHas(store', id)
           /\ storeGet(store, id).status # "pending") =>
          storeGet(store', id).status = storeGet(store, id).status ]_vars

(* the fields of a proposal *)
ProposalFields ==
  { "proposal_id", "tool", "arguments", "params_hash", "summary",
    "createdAt", "expiresAt", "status" }

(* two proposal objects read the same in every field *)
sameFields(p, q) == \A key \in ProposalFields : field(p, key) = field(q, key)

(* this step constructs a ProposalStore on the file an earlier instance wrote *)
Reloads == inst >= 1 /\ inst' = inst + 1

(* C16: a ProposalStore constructed on the file an earlier instance has    *)
(* persisted holds exactly the proposals of the snapshot, and of the       *)
(* earlier instance, whose expiresAt is later than the load time, each     *)
(* with the same eight fields; expired records are not loaded.             *)
ReloadKeepsUnexpired ==
  [][ Reloads =>
        /\ \A k \in DOMAIN file :
             file[k].expiresAt > now =>
               \E j \in DOMAIN store' : sameFields(store'[j], file[k])
        /\ \A k \in DOMAIN store :
             store[k].expiresAt > now =>
               \E j \in DOMAIN store' : sameFields(store'[j], store[k])
        /\ \A j \in DOMAIN store' :
             /\ store'[j].expiresAt > now
             /\ \E k \in DOMAIN file : sameFields(file[k], store'[j])
             /\ \E k \in DOMAIN store : sameFields(store[k], store'[j])
        /\ Len(store') =
             Cardinality({ k \in DOMAIN file : file[k].expiresAt > now }) ]_vars

(* C16: the second instance has loaded one proposal of the file, created   *)
(* without params_hash, and has left an expired one in the file            *)
ReloadedOneOfTwo ==
  /\ inst = 2
  /\ Len(file) = 2
  /\ Len(store) = 1
  /\ file[1].expiresAt <= now
  /\ store[1] = file[2]
  /\ "params_hash" \notin DOMAIN store[1]

(* C17: whenever the process crashes in a snapshot write, and at every     *)
(* other moment, the file at filePath is the complete snapshot it held     *)
(* when the write began or the complete new one, or is absent if it was    *)
(* absent then; it is never a part of a document.                          *)
SnapshotNeverPartial ==
  IF filePath \in DOMAIN disk
  THEN /\ parses(disk[filePath])
       /\ \/ disk[filePath] = text(writer.data)
          \/ writer.previous.exists /\ disk[filePath] = writer.previous.content
  ELSE ~writer.previous.exists

(* C17: the process has crashed with a part of the new document written, *)
(* and filePath holds the previous snapshot                              *)
CrashedInWrite ==
  /\ writer.pc = "crashed"
  /\ tmpPath(filePath) \in DOMAIN disk
  /\ Len(disk[tmpPath(filePath)]) = 2
  /\ Len(text(writer.data)) = 4
  /\ filePath \in DOMAIN disk
  /\ disk[filePath] = text(<< snapshotProposal(1, "approved") >>)

(* C18: after every operation of an instance that changes its store       *)
(* (createProposal, a status change of approve, update, and a sweep, get   *)
(* or list that removes an expired record) the proposals of the snapshot   *)
(* file are the proposals in memory, with equal fields.                    *)
SnapshotFollowsMemory ==
  [][ (inst' = inst /\ store' # store) =>
        /\ Len(file') = Len(store')
        /\ \A k \in DOMAIN store' : sameFields(file'[k], store'[k]) ]_vars

(* C18: a get has removed the only proposal, expired, and the file is empty *)
ExpiredRemovedFromFile ==
  /\ inst = 1
  /\ issued = 1
  /\ ret.op = "get"
  /\ ret.how = "null"
  /\ ret.id \in DOMAIN known
  /\ store = << >>
  /\ file = << >>

(* C19: list({ limit, status }) returns unexpired proposals only, of the   *)
(* status asked for if one is given, in non-increasing createdAt, and the  *)
(* first limit (20 by default) of them: none that is left out is newer     *)
(* than one that is returned.                                              *)
ListNewestFirst ==
  ret.op = "list" =>
    LET items == ret.value
        limit == IF ret.limit = 0 THEN 20 ELSE ret.limit
        eligible == { k \in DOMAIN store :
                        /\ store[k].expiresAt > now
                        /\ ret.status # "" => store[k].status = ret.status }
        returned == { k \in eligible : \E i \in DOMAIN items : items[i] = store[k] }
    IN /\ \A i \in DOMAIN items : \E k \in eligible : items[i] = store[k]
       /\ \A i, j \in DOMAIN items :
            i < j => /\ items[i].createdAt >= items[j].createdAt
                     /\ items[i].proposal_id # items[j].proposal_id
       /\ Len(items) = IF Cardinality(eligible) < limit
                       THEN Cardinality(eligible) ELSE limit
       /\ \A k \in eligible \ returned, i \in DOMAIN items :
            items[i].createdAt >= store[k].createdAt

(* C19: list({ limit: 1 }) returns the newer of two proposals, the second *)
(* of the Map                                                             *)
ListReturnsNewest ==
  /\ ret.op = "list"
  /\ ret.limit = 1
  /\ Len(store) = 2
  /\ store[1].createdAt < store[2].createdAt
  /\ ret.value = << store[2] >>

(* a value occurs verbatim in what is shown *)
verbatim(value, shown) ==
  \E a \in 0..(Len(shown) - Len(value)) :
    \A j \in 1..Len(value) : shown[a + j] = value[j]

(* C23: the arguments of toSafeProposal(proposal) contain no argument value *)
(* verbatim that containsSensitiveText classifies as sensitive, and a value *)
(* under a secret-named key or shaped like a secret is shown only masked.   *)
SafeProjectionMasks ==
  projected.called =>
    \A key \in DOMAIN projected.proposal.arguments :
      LET value == charactersOf(projected.proposal.arguments[key])
          shown == projected.safe.arguments[key]
      IN /\ containsSensitiveText(value) => ~verbatim(value, shown)
         /\ (/\ value # << >>
             /\ SECRET_KEY_RE(characters[key]) \/ isLikelySecretValue(value)) =>
              ~verbatim(value, shown)

(* C24: the expiresAt of a proposal in the store is its createdAt plus the *)
(* TTL, whatever operations the store has run since it was created.       *)
ExpiresAtFixed ==
  \A k \in DOMAIN store : store[k].expiresAt = store[k].createdAt + ttlMs

(* C37: approve(id, true, execFn) on a live proposal sets status to        *)
(* 'approved' in the Map and in the file, invokes execFn once, with that   *)
(* proposal as it then is, and returns what execFn returns; the file has   *)
(* the status also when execFn throws.  An approve that finds no proposal, *)
(* or returns the proposal as expired or rejected, does not invoke execFn. *)
ApprovePersistsThenExecutes ==
  [][ \A id \in ProposalIds :
        Returns("approve", id) =>
          /\ ret'.how \in { "null", "proposal", "execFn", "throws" }
          /\ ret'.how \in { "execFn", "throws" } =>
               /\ storeHas(store, id)
               /\ storeGet(store, id).expiresAt > now
               /\ execCalls' = [execCalls EXCEPT ![id] = execCalls[id] + 1]
               /\ storeGet(store', id) = [storeGet(store, id) EXCEPT !.status = "approved"]
               /\ ret'.value = << storeGet(store', id) >>
               /\ \E k \in DOMAIN file' : /\ file'[k].proposal_id = id
                                          /\ file'[k].status = "approved"
          /\ ret'.how = "null" => execCalls' = execCalls
          /\ ret'.how = "proposal" =>
               /\ execCalls' = execCalls
               /\ ret'.value[1].status \in { "expired", "rejected" }
          /\ ~storeHas(store, id) => ret'.how = "null" ]_vars

(* execFn has returned for a proposal the file records as approved *)
ApprovedOnFileAndExecuted ==
  /\ ret.op = "approve"
  /\ ret.how = "execFn"
  /\ ret.value[1].status = "approved"
  /\ \E k \in DOMAIN file : file[k].proposal_id = ret.id /\ file[k].status = "approved"

(***************************************************************************)
(* Specification of the sweep timers: the setInterval call of server.js    *)
(* at module load and the one of ProposalStore._init, in milliseconds      *)
(***************************************************************************)
(* values of process.env.PROPOSAL_TTL_MS: whole seconds, and one ms more *)
ConfiguredTtlMs == { 1000 * k + j : k \in 1..MaxSeconds, j \in { 0, 1 } }

(* Math.max(a, b) *)
max(a, b) == IF a >= b THEN a ELSE b

(* Math.max(10000, Math.floor(ttl / 2)) *)
sweepDelay(ttl) == max(10000, ttl \div 2)

(* server.js at module load: setInterval(cleanupProposals, ...) *)
ServerStartsSweep(ttl) ==
  /\ program = "setInterval"
  /\ sweepTimer = NoTimer
  /\ sweepTimer' = [ owner |-> "server.js", ttl |-> ttl, delay |-> sweepDelay(ttl) ]
  /\ UNCHANGED << program, now, serverVars, storeVars, writeVars, scanVars, callVars >>

(* new ProposalStore({ ttlSeconds }): this.ttlMs and the setInterval of _init() *)
StoreStartsSweep(ttlSeconds) ==
  /\ program = "setInterval"
  /\ sweepTimer = NoTimer
  /\ LET ms == ttlSeconds * 1000
     IN sweepTimer' = [ owner |-> "ProposalStore", ttl |-> ms, delay |-> sweepDelay(ms) ]
  /\ UNCHANGED << program, now, serverVars, storeVars, writeVars, scanVars, callVars >>

TimerInit ==
  /\ program = "setInterval"
  /\ now = 0
  /\ DRY_RUN = FALSE
  /\ ENABLE_LEGACY_TOOLS = FALSE
  /\ allowlist = ALLOWED_TOOLS
  /\ catalog = DOMAIN TOOLS
  /\ proposalStore = [ i \in {} |-> NoProposal ]
  /\ req = [ r \in Reqs |-> IdleRequest ]
  /\ answered = IdleRequest
  /\ execCount = [ i \in ProposalIds |-> 0 ]
  /\ created = [ i \in {} |-> NoProposal ]
  /\ rejected = {}
  /\ executed = {}
  /\ StoreStart

TimerNext ==
  \/ \E ttl \in ConfiguredTtlMs : ServerStartsSweep(ttl)
  \/ \E ttlSeconds \in 1..MaxSeconds : StoreStartsSweep(ttlSeconds)

TimerSpec == TimerInit /\ [][TimerNext]_vars

(***************************************************************************)
(* Properties of the sweep timers                                          *)
(***************************************************************************)
(* C29: the delay of a sweep timer is at most half the TTL it was started  *)
(* for                                                                     *)
SweepWithinHalfTtl == sweepTimer # NoTimer => 2 * sweepTimer.delay <= sweepTimer.ttl

(***************************************************************************)
(* Specification of the error mapping of tools/call: a downstream request  *)
(* that fails, the handler that passes the failure on, the normalisation   *)
(* of handleTool and the JSON-RPC error of mcpPostHandler                  *)
(***************************************************************************)
(* the read tools that are called and the path their handler requests *)
FailingCalls ==
  { [ tool |-> "contacts_search", path |-> "/contacts/search" ],
    [ tool |-> "conversations_report", path |-> "/conversations/reports" ],
    [ tool |-> "tasks_list", path |-> "/tasks" ] }

(* response.status of a response that is not ok *)
FailureStatuses == { 400, 401, 403, 404, 422, 500 }

(* data of the failed response: a JSON object with or without a message    *)
(* property, or the text of a body that is not JSON, with its length       *)
UpstreamBodies ==
  { [ type |-> "object", value |-> "{ message, contact }",
      message |-> "No contact for john@example.com", length |-> 0 ],
    [ type |-> "object", value |-> "{ errors }", message |-> "", length |-> 0 ] }
    \cup { [ type |-> "string", value |-> "Bad request for jane@example.com", message |-> "",
             length |-> n ] : n \in { 1, 199, 200, 2000, 2001 } }

(* errorMessage of ghlRequest; the status in the default message is left out *)
errorMessage(data) ==
  IF data.type = "object" /\ data.message # "" THEN data.message
  ELSE IF data.type = "string" /\ data.length < 200 THEN data.value
  ELSE "GHL API error"

(* safeDetails of ghlRequest *)
safeDetails(path, status, data) ==
  IF data.type = "object" \/ data.length <= 2000
  THEN [ endpoint |-> path, status |-> status, response |-> data ]
  ELSE [ endpoint |-> path, status |-> status ]

(* ghlRequest(method, path, options) when the response is not ok *)
ghlRequest(path, status, data) ==
  [ ok |-> FALSE, status |-> status, error |-> errorMessage(data),
    details |-> safeDetails(path, status, data) ]

(* a handler on if (!result.ok) *)
handlerError(result) ==
  [ error |-> result.error, status |-> result.status, details |-> result.details ]

(* handleTool on result.error: details gets the endpoint, or the tool name *)
normalizeError(result, toolName) ==
  [ error |-> result.error, status |-> result.status,
    details |-> [ key \in DOMAIN result.details \cup { "endpoint" } |->
                    IF key = "endpoint" /\ key \notin DOMAIN result.details
                    THEN toolName ELSE result.details[key] ] ]

(* errorCode of tools/call *)
errorCode(status) ==
  IF status = 400 THEN -32602 ELSE IF status \in { 401, 403 } THEN -32001 ELSE -32000

(* safeData of tools/call *)
safeData(result) ==
  IF result.details.endpoint = "/conversations/reports" /\ "response" \in DOMAIN result.details
  THEN [ status |-> result.status, endpoint |-> result.details.endpoint,
         response |-> result.details.response ]
  ELSE [ status |-> result.status, endpoint |-> result.details.endpoint ]

(* the error member of the JSON-RPC response of tools/call *)
toolsCallError(result) ==
  [ code |-> errorCode(result.status), message |-> result.error, data |-> safeData(result) ]

(* tools/call of a read tool whose downstream request fails *)
MapsFailure(call, status, data) ==
  /\ program = "toolsCallError"
  /\ ~mapped.called
  /\ LET result == normalizeError(handlerError(ghlRequest(call.path, status, data)), call.tool)
     IN mapped' = [ called |-> TRUE, tool |-> call.tool, endpoint |-> call.path,
                    upstream |-> data, error |-> toolsCallError(result) ]
  /\ UNCHANGED << program, now, serverVars, storeVars, writeVars, scanVars, timerVars,
                  summarized, admitted >>

ErrorInit ==
  /\ program = "toolsCallError"
  /\ now = 0
  /\ DRY_RUN = FALSE
  /\ ENABLE_LEGACY_TOOLS = FALSE
  /\ allowlist = ALLOWED_TOOLS
  /\ catalog = DOMAIN TOOLS
  /\ proposalStore = [ i \in {} |-> NoProposal ]
  /\ req = [ r \in Reqs |-> IdleRequest ]
  /\ answered = IdleRequest
  /\ execCount = [ i \in ProposalIds |-> 0 ]
  /\ created = [ i \in {} |-> NoProposal ]
  /\ rejected = {}
  /\ executed = {}
  /\ StoreStart

ErrorNext ==
  \E call \in FailingCalls, status \in FailureStatuses, data \in UpstreamBodies :
    MapsFailure(call, status, data)

ErrorSpec == ErrorInit /\ [][ErrorNext]_vars

(***************************************************************************)
(* Properties of the error mapping                                         *)
(***************************************************************************)
(* C31: the error of tools/call for a failed tool has a status and an      *)
(* endpoint in its data, the upstream response only when the endpoint is   *)
(* /conversations/reports, and for any other endpoint nothing of the       *)
(* upstream payload anywhere in it                                         *)
ErrorForwardsNoPayload ==
  mapped.called =>
    /\ { "status", "endpoint" } \subseteq DOMAIN mapped.error.data
    /\ DOMAIN mapped.error.data \subseteq { "status", "endpoint", "response" }
    /\ "response" \in DOMAIN mapped.error.data => mapped.endpoint = "/conversations/reports"
    /\ mapped.endpoint # "/conversations/reports" =>
         mapped.error.message \notin { mapped.upstream.value, mapped.upstream.message }

(***************************************************************************)
(* Specification of the summary of a proposal: createProposal on argument  *)
(* objects whose properties were inserted in any order                     *)
(***************************************************************************)
(* the properties an argument object may have, each with its value *)
ArgumentValues ==
  [ title |-> "Call Mr Smith", dueDateTime |-> "2026-02-18T17:00:00-05:00",
    contactId |-> "C-1", body |-> "Bring the contract" ]

(* the sequences of distinct keys: the insertion orders of every key set *)
InsertionOrders ==
  UNION { { order \in [ 1..n -> DOMAIN ArgumentValues ] :
              \A i, j \in 1..n : i # j => order[i] # order[j] } :
          n \in 0..Cardinality(DOMAIN ArgumentValues) }

(* an argument object: its properties in insertion order *)
objectOf(order) == [ i \in DOMAIN order |-> [ key |-> order[i], value |-> ArgumentValues[order[i]] ] ]

(* Object.keys(args): the keys in insertion order (none of them is a number) *)
ObjectKeys(args) == [ i \in DOMAIN args |-> args[i].key ]

(* keys.join(', '): the pieces of the string *)
RECURSIVE joinKeys(_)
joinKeys(keys) ==
  IF Len(keys) = 0 THEN << >>
  ELSE IF Len(keys) = 1 THEN keys
  ELSE << Head(keys), ", " >> \o joinKeys(Tail(keys))

(* summarizeArgs(args): the pieces of the string *)
summarizeArgs(args) ==
  IF Len(ObjectKeys(args)) > 0 THEN << "fields: " >> \o joinKeys(ObjectKeys(args))
  ELSE << "no parameters" >>

(* summary of createProposal: `${toolName} (${summarizeArgs(args)})` *)
summaryOf(toolName, args) == << toolName, " (" >> \o summarizeArgs(args) \o << ")" >>

(* createProposal(toolName, args) makes the summary *)
Summarizes(toolName, order) ==
  /\ program = "summarizeArgs"
  /\ ~summarized.called
  /\ summarized' = [ called |-> TRUE, tool |-> toolName, args |-> objectOf(order),
                     summary |-> summaryOf(toolName, objectOf(order)) ]
  /\ UNCHANGED << program, now, serverVars, storeVars, writeVars, scanVars, timerVars,
                  mapped, admitted >>

SummaryInit ==
  /\ program = "summarizeArgs"
  /\ now = 0
  /\ DRY_RUN = FALSE
  /\ ENABLE_LEGACY_TOOLS = FALSE
  /\ allowlist = ALLOWED_TOOLS
  /\ catalog = DOMAIN TOOLS
  /\ proposalStore = [ i \in {} |-> NoProposal ]
  /\ req = [ r \in Reqs |-> IdleRequest ]
  /\ answered = IdleRequest
  /\ execCount = [ i \in ProposalIds |-> 0 ]
  /\ created = [ i \in {} |-> NoProposal ]
  /\ rejected = {}
  /\ executed = {}
  /\ StoreStart

SummaryNext ==
  \E toolName \in { "tasks_create", "contacts_upsert" }, order \in InsertionOrders :
    Summarizes(toolName, order)

SummarySpec == SummaryInit /\ [][SummaryNext]_vars

(***************************************************************************)
(* Properties of the summary                                               *)
(***************************************************************************)
(* the two argument objects have the same properties *)
sameProperties(a, b) ==
  { a[i] : i \in DOMAIN a } = { b[i] : i \in DOMAIN b }

(* C32: the summary of a proposal is the same for every insertion order of *)
(* the same arguments, and no piece of it is an argument value             *)
SummaryIgnoresKeyOrder ==
  summarized.called =>
    /\ \A order \in InsertionOrders :
         sameProperties(objectOf(order), summarized.args) =>
           summaryOf(summarized.tool, objectOf(order)) = summarized.summary
    /\ \A i \in DOMAIN summarized.summary, k \in DOMAIN summarized.args :
         summarized.summary[i] # summarized.args[k].value

(***************************************************************************)
(* Specification of requireApiKey: one request with its x-api-key header,  *)
(* its Authorization header and its apiKey query parameter                 *)
(***************************************************************************)
(* a header or parameter value: its text, and whether blanks surround it *)
Credential(string, padded) == [ string |-> string, padded |-> padded ]

(* a header or parameter the request does not have: undefined *)
Absent == Credential("", FALSE)

(* the values presented: the configured key, another key, the key in blanks *)
Credentials ==
  { Credential("key-1", FALSE), Credential("key-2", FALSE), Credential("key-1", TRUE) }

(* values of the Authorization header: none, 'Bearer <value>', '<value>' *)
AuthorizationHeaders ==
  { [ scheme |-> "", credential |-> Absent ] }
    \cup [ scheme : { "Bearer ", "" }, credential : Credentials ]

AuthRequests ==
  [ xApiKey : Credentials \cup { Absent },
    authorization : AuthorizationHeaders,
    queryKey : { Absent, Credential("key-1", FALSE), Credential("key-2", FALSE) } ]

(* values of process.env.MCP_API_KEY: not set, or the key *)
ConfiguredKeys == { Absent, Credential("key-1", FALSE) }

(* String.prototype.trim *)
trim(value) == Credential(value.string, FALSE)

(* providedKey of requireApiKey: the first source that has a value *)
providedKey(request) ==
  IF request.xApiKey # Absent THEN request.xApiKey
  ELSE IF request.authorization.credential # Absent /\ request.authorization.scheme = "Bearer "
  THEN trim(request.authorization.credential)
  ELSE IF request.authorization.credential # Absent
  THEN trim(request.authorization.credential)
  ELSE request.queryKey

(* requireApiKey(req, res, next): next(), or the status it answers with *)
requireApiKey(MCP_API_KEY, request) ==
  IF MCP_API_KEY = Absent THEN "500"
  ELSE IF providedKey(request) = Absent THEN "401"
  ELSE IF providedKey(request) # MCP_API_KEY THEN "401"
  ELSE "next"

(* app.post('/mcp', requireApiKey, mcpPostHandler): a request comes in *)
Authenticates(MCP_API_KEY, request) ==
  /\ program = "requireApiKey"
  /\ ~admitted.called
  /\ admitted' = [ called |-> TRUE, key |-> MCP_API_KEY, request |-> request,
                   decision |-> requireApiKey(MCP_API_KEY, request) ]
  /\ UNCHANGED << program, now, serverVars, storeVars, writeVars, scanVars, timerVars,
                  mapped, summarized >>

AuthInit ==
  /\ program = "requireApiKey"
  /\ now = 0
  /\ DRY_RUN = FALSE
  /\ ENABLE_LEGACY_TOOLS = FALSE
  /\ allowlist = ALLOWED_TOOLS
  /\ catalog = DOMAIN TOOLS
  /\ proposalStore = [ i \in {} |-> NoProposal ]
  /\ req = [ r \in Reqs |-> IdleRequest ]
  /\ answered = IdleRequest
  /\ execCount = [ i \in ProposalIds |-> 0 ]
  /\ created = [ i \in {} |-> NoProposal ]
  /\ rejected = {}
  /\ executed = {}
  /\ StoreStart

AuthNext ==
  \E MCP_API_KEY \in ConfiguredKeys, request \in AuthRequests :
    Authenticates(MCP_API_KEY, request)

AuthSpec == AuthInit /\ [][AuthNext]_vars

(***************************************************************************)
(* Properties of requireApiKey                                             *)
(***************************************************************************)
(* the request has the value in x-api-key or as Authorization: Bearer *)
carries(request, value) ==
  \/ request.xApiKey = value
  \/ request.authorization = [ scheme |-> "Bearer ", credential |-> value ]

(* the request with the values of x-api-key and of Authorization: Bearer   *)
(* exchanged                                                               *)
exchanged(request) ==
  [ xApiKey |-> request.authorization.credential,
    authorization |-> [ scheme |-> IF request.xApiKey = Absent THEN "" ELSE "Bearer ",
                        credential |-> request.xApiKey ],
    queryKey |-> request.queryKey ]

(* C33: a request is let through only when MCP_API_KEY is set and the key  *)
(* presented equals it, and a request that carries the key in x-api-key or *)
(* in Authorization: Bearer gets the decision of the request that carries  *)
(* it in the other of the two, whatever the other header holds             *)
EitherHeaderAdmits ==
  admitted.called =>
    /\ admitted.decision = "next" =>
         /\ admitted.key # Absent
         /\ providedKey(admitted.request) = admitted.key
    /\ ( /\ admitted.key # Absent
         /\ carries(admitted.request, admitted.key)
         /\ admitted.request.authorization.scheme = "Bearer "
              \/ admitted.request.authorization.credential = Absent ) =>
         requireApiKey(admitted.key, exchanged(admitted.request)) = admitted.decision

(***************************************************************************)
(* Both programs: the one that Init starts is the one that runs            *)
(***************************************************************************)
Init == ServerInit \/ StoreInit

Next == ServerNext \/ StoreNext

Spec == Init /\ [][Next]_vars

(***************************************************************************)
(* Both programs with their timers running: Date.now() keeps growing while *)
(* a proposal waits for its expiry, the setInterval callback of the        *)
(* running program keeps firing, a response is delivered and a call        *)
(* returns.  Requests come or not, and a handler that was awaited may      *)
(* never settle.                                                           *)
(***************************************************************************)
(* expiresAt of the proposals the two stores hold *)
expiries ==
  { proposalStore[id].expiresAt : id \in DOMAIN proposalStore }
    \cup { store[k].expiresAt : k \in DOMAIN store }

(* Date.now() has grown by one tick *)
TimeAdvances ==
  /\ EventLoopFree
  /\ \/ now < MaxTime
     \/ \E t \in expiries : now < t
  /\ now' = now + 1
  /\ UNCHANGED << program, serverVars, writeVars, scanVars, timerVars, callVars, storeVars >>

(* neither a follow-up task nor a handler is called by handleTool *)
NoDownstream == [ followup |-> "ok", handler |-> "result" ]

LiveNext ==
  \/ ToolsCall("tasks_create", ArgsValid, NoDownstream)
  \/ \E r \in Reqs, id \in ProposalIds, approve \in { "true", "false" } :
       ToolsApprove(r, id, approve)
  \/ \E r \in Reqs, outcome \in { "result", "throws" } : ApproveHandlerSettles(r, outcome)
  \/ Deliver
  \/ cleanupProposals
  \/ Construct
  \/ Sweep
  \/ StoreCreate("tasks_create", ArgsValid, "hash", "tasks_create (fields: title, dueDateTime)")
  \/ \E id \in ProposalIds : StoreGet(id)
  \/ \E id \in ProposalIds, approveBool \in BOOLEAN : StoreApprove(id, approveBool, 0, "returns")
  \/ \E id \in ProposalIds, patch \in Patches : StoreUpdate(id, patch)
  \/ Return
  \/ TimeAdvances

LiveSpec ==
  /\ Init
  /\ [][LiveNext]_vars
  /\ SF_vars(TimeAdvances)
  /\ SF_vars(cleanupProposals)
  /\ SF_vars(Sweep)
  /\ WF_vars(Deliver)
  /\ WF_vars(Return)

(***************************************************************************)
(* Properties of both programs with their timers running                   *)
(***************************************************************************)
(* the proposal id is in the Map of the running program *)
inStore(id) == id \in DOMAIN proposalStore \/ storeHas(store, id)

(* C27: every proposal that is in a store is eventually out of it, also    *)
(* when the handler awaited for its approval never settles                 *)
EveryProposalRemoved == \A id \in ProposalIds : inStore(id) ~> ~inStore(id)

(* the handler of an approval is still awaited and its proposal, expired,  *)
(* is out of the store                                                     *)
HungExecutionRetired ==
  \E r \in Reqs : /\ req[r].pc = "awaitHandler"
                  /\ req[r].proposal.expiresAt <= now
                  /\ ~inStore(req[r].proposal_id)

(***************************************************************************)
(* Properties of both programs                                             *)
(***************************************************************************)
(* C7: a resolve attempt on a proposal that is in the store with           *)
(* expiresAt <= now invokes neither the tool handler nor execFn, whatever  *)
(* the approve flag: tools/approve deletes it and answers 'expired'.       *)
ExpiredNeverExecutes ==
  [][ /\ \A id \in DOMAIN proposalStore :
           (proposalStore[id].expiresAt <= now /\ ApproveHandled(id)) =>
             /\ Answers
             /\ answered'.resp.kind = "proposal_expired"
             /\ id \notin DOMAIN proposalStore'
             /\ execCount' = execCount
      /\ \A id \in ProposalIds :
           (storeHas(store, id) /\ storeGet(store, id).expiresAt <= now'
              /\ Returns("approve", id)) =>
             /\ execCalls' = execCalls
             /\ ret'.how \in { "null", "proposal" }
             /\ ret'.how = "proposal" => ret'.value[1].status = "expired" ]_vars

(* C7: approve(id, true) has found the proposal expired after _cleanup() *)
ApproveFoundExpired ==
  /\ ret.op = "approve"
  /\ ret.how = "proposal"
  /\ ret.value[1].status = "expired"
  /\ execCalls[ret.id] = 0

(* this step is the setInterval callback of server.js deleting something *)
ServerSweeps == proposalStore' # proposalStore /\ answered' = answered /\ req' = req

(* this step is the setInterval callback of ProposalStore with an effect *)
StoreSweeps == (store' # store \/ file' # file) /\ ret' = ret /\ inst' = inst

(* C36: a sweep removes the proposals with expiresAt <= now and no other,  *)
(* leaves the proposals that stay as they were and in their order, and     *)
(* ProposalStore writes the file in a sweep only if a record was removed,  *)
(* with the records that stay                                              *)
SweepRemovesExactlyExpired ==
  [][ /\ ServerSweeps =>
           /\ DOMAIN proposalStore' =
                { id \in DOMAIN proposalStore : proposalStore[id].expiresAt > now }
           /\ \A id \in DOMAIN proposalStore' : proposalStore'[id] = proposalStore[id]
      /\ StoreSweeps =>
           /\ store' = SelectSeq(store, LAMBDA proposal : proposal.expiresAt > now)
           /\ file' # file => Len(store') < Len(store)
           /\ Len(store') < Len(store) => file' = persist(store') ]_vars

(* a sweep has removed the older of two proposals and kept the newer *)
SweptOneKeptOne ==
  /\ ret.op = "none"
  /\ issued = 2
  /\ Len(store) = 1
  /\ store[1].proposal_id = 2
  /\ store[1].expiresAt > now
  /\ file = persist(store)

=============================================================================
